---------------------------- MODULE Spec2Model ----------------------------
(***************************************************************************)
(* Model of src/code/modules/frequency_converter.py and                    *)
(* src/code/modules/date_processor.py:                                     *)
(*   - FrequencyConverter._convert_gdp_to_real (chain-linked real values), *)
(*   - FrequencyConverter.process_file and the three resampling methods,   *)
(*   - FrequencyConverter.create_unified_dataset (the merged panel),       *)
(*   - FrequencyConverter.convert_all_to_monthly,                          *)
(*   - DateProcessor.process_all_files, convert_file_dates and the date    *)
(*     converters.                                                         *)
(* A DataFrame is a record [cols, rows]: the set of column names and the   *)
(* sequence of rows, each row a function from column name to value.        *)
(* A float is a record [k, n, d]: k = "num" is the rational n/d (d > 0,    *)
(* reduced), k = "inf" is the infinity of sign n, k = "nan" is NaN.        *)
(***************************************************************************)
EXTENDS Integers, Sequences, FiniteSets, TLC

VARIABLES
    pc,              \* position in the function being run
    input,           \* the DataFrame passed in by the caller (never written)
    df,              \* the working DataFrame (line 271: a copy of the argument)
    annual_df,       \* _convert_gdp_to_real: index labels of the annual rows
    base_year,       \* _convert_gdp_to_real: the anchor year in use
    base_idx,        \* _convert_gdp_to_real: index label of the anchor row
    annual_real_gdp, \* _convert_gdp_to_real: year -> real value of the year
    log,             \* messages printed so far (kind of message)
    filename,        \* process_file: the file being processed (NoFile: none)
    disk,            \* the data directory: file name -> content
    date_diff,       \* process_file: median gap in days between sorted dates
    method,          \* process_file: the resampling method chosen
    result_df,       \* the monthly DataFrame produced
    ret,             \* process_file: the value returned
    df_indexed,      \* _aggregate_daily_to_monthly: the date-indexed frame
    files,           \* convert_all_to_monthly: the list of files to convert
    file_idx,        \* convert_all_to_monthly: position of the loop in files
    success_count,   \* self.success_count
    tally,           \* history: what process_file returned, file by file
    merged_df,       \* create_unified_dataset: the panel being built
    merge_idx,       \* create_unified_dataset: position in files_to_merge
    fail_count,      \* DateProcessor: self.fail_count
    date_column,     \* convert_file_dates: the name of the date column
    sample,          \* convert_file_dates: the text the format is detected from
    conversion_type, \* convert_file_dates: the format detected
    normalized       \* the result of normalising sample, and of doing so again

gdp_vars == <<annual_df, base_year, base_idx, annual_real_gdp>>

file_vars == <<filename, disk, date_diff, method, result_df, ret, df_indexed>>

merge_vars == <<files, file_idx, success_count, tally, merged_df, merge_idx>>

date_vars == <<fail_count, date_column, sample, conversion_type, normalized>>

vars == <<pc, input, df, gdp_vars, log, file_vars, merge_vars, date_vars>>

-----------------------------------------------------------------------------
(* Floating point values (numpy float64, NaN and the infinities kept).     *)

RECURSIVE Gcd(_, _)
Gcd(a, b) == IF b = 0 THEN a ELSE Gcd(b, a % b)

Abs(x) == IF x < 0 THEN -x ELSE x

Sign(x) == IF x < 0 THEN -1 ELSE IF x = 0 THEN 0 ELSE 1

NaN == [k |-> "nan", n |-> 0, d |-> 1]

Inf(s) == [k |-> "inf", n |-> s, d |-> 1]

\* The rational n/d in lowest terms with a positive denominator (d # 0).
Num(n, d) ==
    LET g == Gcd(Abs(n), Abs(d))
        s == IF d < 0 THEN -1 ELSE 1
    IN  [k |-> "num", n |-> s * (n \div g), d |-> s * (d \div g)]

FromInt(i) == [k |-> "num", n |-> i, d |-> 1]

IsNaN(x) == x.k = "nan"

IsFinite(x) == x.k = "num"

\* pd.notna / pd.isna: only NaN is missing, an infinity is a value.
notna(x) == ~IsNaN(x)

FSign(x) == IF x.k = "nan" THEN 0 ELSE Sign(x.n)

FNeg(x) == IF x.k = "nan" THEN NaN ELSE [x EXCEPT !.n = -x.n]

FAdd(x, y) ==
    IF IsNaN(x) \/ IsNaN(y) THEN NaN
    ELSE IF x.k = "inf" /\ y.k = "inf" THEN (IF x.n = y.n THEN x ELSE NaN)
    ELSE IF x.k = "inf" THEN x
    ELSE IF y.k = "inf" THEN y
    ELSE Num(x.n * y.d + y.n * x.d, x.d * y.d)

FSub(x, y) == FAdd(x, FNeg(y))

FMul(x, y) ==
    IF IsNaN(x) \/ IsNaN(y) THEN NaN
    ELSE IF x.k = "inf" \/ y.k = "inf"
         THEN (IF FSign(x) * FSign(y) = 0 THEN NaN ELSE Inf(FSign(x) * FSign(y)))
    ELSE Num(x.n * y.n, x.d * y.d)

\* IEEE division: x/0 is an infinity (NaN for 0/0), never an exception, for
\* numpy scalars.  The zero divisor met here, 1 + (-100)/100, is +0.
FDiv(x, y) ==
    IF IsNaN(x) \/ IsNaN(y) THEN NaN
    ELSE IF x.k = "inf" /\ y.k = "inf" THEN NaN
    ELSE IF x.k = "inf" THEN Inf(IF FSign(y) < 0 THEN -x.n ELSE x.n)
    ELSE IF y.k = "inf" THEN FromInt(0)
    ELSE IF y.n = 0 THEN (IF x.n = 0 THEN NaN ELSE Inf(FSign(x)))
    ELSE Num(x.n * y.d, x.d * y.n)

\* 1 + growth_rate / 100
GrowthFactor(growth_rate) == FAdd(FromInt(1), FDiv(growth_rate, FromInt(100)))

-----------------------------------------------------------------------------
(* Dates and DataFrames.                                                   *)

Year(date) == date[1]

Month(date) == date[2]

Day(date) == date[3]

DateLess(a, b) ==
    \/ a[1] < b[1]
    \/ a[1] = b[1] /\ a[2] < b[2]
    \/ a[1] = b[1] /\ a[2] = b[2] /\ a[3] < b[3]

\* row['date'] - pd.DateOffset(years=1): the same month and day one year
\* earlier (February 29 falls back to February 28).
PrevYearDate(date) ==
    IF Month(date) = 2 /\ Day(date) = 29
    THEN <<Year(date) - 1, 2, 28>>
    ELSE <<Year(date) - 1, Month(date), Day(date)>>

\* The rows of the set S in ascending date order (dates of S are distinct).
RECURSIVE SortByDate(_)
SortByDate(S) ==
    IF S = {} THEN <<>>
    ELSE LET first == CHOOSE r \in S : \A q \in S : ~DateLess(q["date"], r["date"])
         IN  <<first>> \o SortByDate(S \ {first})

RowSet(rows) == {rows[i] : i \in 1..Len(rows)}

Reverse(s) == [i \in 1..Len(s) |-> s[Len(s) + 1 - i]]

\* df[col] = v: add a column (or overwrite it) with one value in every row.
WithColumn(frame, col, v) ==
    [cols |-> frame.cols \cup {col},
     rows |-> [i \in 1..Len(frame.rows) |->
                 [c \in frame.cols \cup {col} |->
                     IF c = col THEN v ELSE frame.rows[i][c]]]]

\* df[dst] = df[src]: copy a column over another, row by row.
CopyColumn(frame, dst, src) ==
    [cols |-> frame.cols \cup {dst},
     rows |-> [i \in 1..Len(frame.rows) |->
                 [c \in frame.cols \cup {dst} |->
                     IF c = dst THEN frame.rows[i][src] ELSE frame.rows[i][c]]]]

\* df.drop(columns=drop, errors='ignore')
DropColumns(frame, drop) ==
    [cols |-> frame.cols \ drop,
     rows |-> [i \in 1..Len(frame.rows) |->
                 [c \in frame.cols \ drop |-> frame.rows[i][c]]]]

\* df.loc[idx, col] = v
SetCell(frame, idx, col, v) ==
    [frame EXCEPT !.rows[idx][col] = v]

-----------------------------------------------------------------------------
(* FrequencyConverter._convert_gdp_to_real                                 *)

BASE_YEAR == 2015

value_col == "value_col"

growth_col == "growth_col"

\* real_gdp_col = f'{value_col}_<suffix>': the temporary real-value column
real_gdp_col == "value_col_real"

\* df['year'] = df['date'].dt.year
WithYear(frame) ==
    [cols |-> frame.cols \cup {"year"},
     rows |-> [i \in 1..Len(frame.rows) |->
                 [c \in frame.cols \cup {"year"} |->
                     IF c = "year" THEN Year(frame.rows[i]["date"])
                     ELSE frame.rows[i][c]]]]

\* annual_mask = df['date'].dt.month == 12; the index labels it selects.
AnnualMask(frame) ==
    SelectSeq([i \in 1..Len(frame.rows) |-> i],
              LAMBDA i : Month(frame.rows[i]["date"]) = 12)

\* annual_df['year'] at position j: annual_df is a copy of the annual rows
\* taken at line 287, year column included.
AnnualYear(j) == Year(df.rows[annual_df[j]]["date"])

\* annual_df[annual_df['year'] == y].index: labels of the annual rows of year y.
AnnualOfYear(y) ==
    {annual_df[j] : j \in {q \in 1..Len(annual_df) : AnnualYear(q) = y}}

\* annual_df[mask].index[0]
FirstAnnualOfYear(y) ==
    CHOOSE i \in AnnualOfYear(y) : \A q \in AnnualOfYear(y) : i <= q

\* Mutant of MiddleYear: the lower of the two middle records.
MiddleYearLower == AnnualYear(((Len(annual_df) - 1) \div 2) + 1)

\* annual_df['year'].iloc[len(annual_df)//2]  (0-based position len//2)
MiddleYear == AnnualYear((Len(annual_df) \div 2) + 1)

RECURSIVE SortInts(_)
SortInts(S) ==
    IF S = {} THEN <<>>
    ELSE LET m == CHOOSE x \in S : \A y \in S : x <= y
         IN  <<m>> \o SortInts(S \ {m})

\* years = sorted(annual_df['year'].unique())
years == SortInts({AnnualYear(j) : j \in 1..Len(annual_df)})

\* years.index(base_year), as a 1-based position
base_year_idx == CHOOSE i \in 1..Len(years) : years[i] = base_year

\* annual_real_gdp[year] = v
DictPut(dict, year, v) ==
    [y \in DOMAIN dict \cup {year} |-> IF y = year THEN v ELSE dict[y]]

\* Lines 271-291: copy, helper columns, sort by date, pick the annual rows.
Prepare ==
    /\ pc = "start"
    /\ LET sorted == [cols |-> df.cols, rows |-> SortByDate(RowSet(df.rows))]
           frame  == WithColumn(WithYear(sorted), real_gdp_col, NaN)
           mask   == AnnualMask(frame)
       IN  /\ df' = frame
           /\ IF Len(mask) = 0
              THEN /\ annual_df' = [i \in 1..Len(frame.rows) |-> i]
                   /\ log' = Append(log, "warning: no annual rows, using all rows")
              ELSE /\ annual_df' = mask
                   /\ log' = log
    /\ pc' = "anchor"
    /\ UNCHANGED <<input, base_year, base_idx, annual_real_gdp, file_vars, merge_vars, date_vars>>

\* Mutant of BaseNominal: the anchor read from the growth-rate column.
BaseNominalFromGrowth(idx) == df.rows[idx][growth_col]

\* Line 302: base_nominal_gdp = annual_df.loc[base_idx, value_col]
BaseNominal(idx) == df.rows[idx][value_col]

\* Lines 293-313: choose the base year, set the anchor.
Anchor ==
    /\ pc = "anchor"
    /\ IF AnnualOfYear(base_year) = {} /\ Len(annual_df) = 0
       THEN \* .iloc[0] of an empty frame raises IndexError
            /\ pc' = "raised"
            /\ log' = Append(log, "warning: base year not found")
            /\ UNCHANGED <<df, base_year, base_idx, annual_real_gdp, file_vars, merge_vars>>
       ELSE LET fallback == AnnualOfYear(base_year) = {}
                by  == IF fallback THEN MiddleYear ELSE base_year
                idx == FirstAnnualOfYear(by)
                base_nominal_gdp == BaseNominal(idx)
            IN  /\ base_year' = by
                /\ base_idx' = idx
                /\ df' = SetCell(df, idx, real_gdp_col, base_nominal_gdp)
                /\ annual_real_gdp' = (by :> base_nominal_gdp)
                /\ log' = IF fallback
                          THEN log \o <<"warning: base year not found",
                                        "base year substituted">>
                          ELSE log
                /\ pc' = "forward"
    /\ UNCHANGED <<input, annual_df, file_vars, merge_vars, date_vars>>

\* The factor of lines 328 and 369.
ChainForward(prev_real, growth_rate) == FMul(prev_real, GrowthFactor(growth_rate))

\* Mutant of ChainBackward: the factor multiplied instead of divided.
ChainBackwardMultiplied(next_real, growth_rate) ==
    FMul(next_real, GrowthFactor(growth_rate))

\* The quotient of line 348.
ChainBackward(next_real, growth_rate) == FDiv(next_real, GrowthFactor(growth_rate))

\* years[i-1] of line 326: the entry before years[i] in the list of years.
ForwardPrevYear(i) == years[i - 1]

\* Lines 316-330, from position i of years on; st = [gdp, df].
RECURSIVE ForwardLoop(_, _)
ForwardLoop(i, st) ==
    IF i > Len(years) THEN st
    ELSE LET year == years[i]
             year_idx == FirstAnnualOfYear(year)
             growth_rate == st.df.rows[year_idx][growth_col]
             prev_year == ForwardPrevYear(i)
         IN  IF prev_year \in DOMAIN st.gdp
             THEN LET real_gdp == ChainForward(st.gdp[prev_year], growth_rate)
                  IN  ForwardLoop(i + 1,
                        [gdp |-> DictPut(st.gdp, year, real_gdp),
                         df  |-> SetCell(st.df, year_idx, real_gdp_col, real_gdp)])
             ELSE ForwardLoop(i + 1, st)

Forward ==
    /\ pc = "forward"
    /\ LET st == ForwardLoop(base_year_idx + 1, [gdp |-> annual_real_gdp, df |-> df])
       IN  /\ df' = st.df
           /\ annual_real_gdp' = st.gdp
    /\ pc' = "backward"
    /\ UNCHANGED <<input, annual_df, base_year, base_idx, log, file_vars, merge_vars, date_vars>>

\* Lines 333-351, from position i of years down.
RECURSIVE BackwardLoop(_, _)
BackwardLoop(i, st) ==
    IF i < 1 THEN st
    ELSE LET year == years[i]
             next_year == years[i + 1]
             next_year_idx == FirstAnnualOfYear(next_year)
             growth_rate == st.df.rows[next_year_idx][growth_col]
         IN  IF next_year \in DOMAIN st.gdp
             THEN LET real_gdp == ChainBackward(st.gdp[next_year], growth_rate)
                      year_idx == FirstAnnualOfYear(year)
                  IN  BackwardLoop(i - 1,
                        [gdp |-> DictPut(st.gdp, year, real_gdp),
                         df  |-> SetCell(st.df, year_idx, real_gdp_col, real_gdp)])
             ELSE BackwardLoop(i - 1, st)

Backward ==
    /\ pc = "backward"
    /\ LET st == BackwardLoop(base_year_idx - 1, [gdp |-> annual_real_gdp, df |-> df])
       IN  /\ df' = st.df
           /\ annual_real_gdp' = st.gdp
    /\ pc' = "non_year_end"
    /\ UNCHANGED <<input, annual_df, base_year, base_idx, log, file_vars, merge_vars, date_vars>>

\* Line 365: the first row dated prev_date, 0 when there is none.
PrevRow(frame, prev_date) ==
    LET hits == {j \in 1..Len(frame.rows) : frame.rows[j]["date"] = prev_date}
    IN  IF hits = {} THEN 0 ELSE CHOOSE j \in hits : \A q \in hits : j <= q

\* Lines 373-374: the row's nominal value over the nominal value of its
\* year's first annual row, 1 when the year has no annual row.
NominalRatio(row) ==
    IF AnnualOfYear(row["year"]) # {}
    THEN FDiv(row[value_col], df.rows[FirstAnnualOfYear(row["year"])][value_col])
    ELSE FromInt(1)

\* Lines 355-377, from row idx on; frame is the DataFrame updated so far.
RECURSIVE NonYearEndLoop(_, _)
NonYearEndLoop(idx, frame) ==
    IF idx > Len(frame.rows) THEN frame
    ELSE LET row == frame.rows[idx]
             year == row["year"]
             growth_rate == row[growth_col]
             prev_year == year - 1
             prev == PrevRow(frame, PrevYearDate(row["date"]))
         IN  IF notna(row[real_gdp_col])
             THEN NonYearEndLoop(idx + 1, frame)
             ELSE IF prev # 0 /\ notna(frame.rows[prev][real_gdp_col])
             THEN NonYearEndLoop(idx + 1,
                    SetCell(frame, idx, real_gdp_col,
                            ChainForward(frame.rows[prev][real_gdp_col], growth_rate)))
             ELSE IF prev_year \in DOMAIN annual_real_gdp /\ year \in DOMAIN annual_real_gdp
             THEN NonYearEndLoop(idx + 1,
                    SetCell(frame, idx, real_gdp_col,
                            FMul(annual_real_gdp[year], NominalRatio(row))))
             ELSE NonYearEndLoop(idx + 1, frame)

NonYearEnd ==
    /\ pc = "non_year_end"
    /\ df' = NonYearEndLoop(1, df)
    /\ pc' = "interpolate"
    /\ UNCHANGED <<input, annual_df, base_year, base_idx, annual_real_gdp, log, file_vars, merge_vars, date_vars>>

\* Mutant of Interp: the midpoint of the two neighbours at every position.
InterpMidpoint(v, lo, hi, x) == FDiv(FAdd(v[lo], v[hi]), FromInt(2))

\* numpy.interp at position x between the valid positions lo < x < hi of the
\* value sequence v (the second formula is numpy's retry when the first is NaN).
Interp(v, lo, hi, x) ==
    LET slope == FDiv(FSub(v[hi], v[lo]), FromInt(hi - lo))
        one   == FAdd(FMul(slope, FromInt(x - lo)), v[lo])
        other == FAdd(FMul(slope, FromInt(x - hi)), v[hi])
    IN  IF notna(one) THEN one
        ELSE IF notna(other) THEN other
        ELSE IF v[lo] = v[hi] THEN v[lo]
        ELSE NaN

\* Mutant of InterpolateLinear: every value after the first resolved one
\* recomputed from its resolved neighbours.
InterpolateLinearSmoothing(v) ==
    LET valid == {j \in 1..Len(v) : notna(v[j])}
    IN  [x \in 1..Len(v) |->
           LET before == {j \in valid : j < x}
               after  == {j \in valid : j > x}
           IN  IF before = {} THEN v[x]
               ELSE LET lo == CHOOSE j \in before : \A q \in before : q <= j
                    IN  IF after = {} THEN v[lo]
                        ELSE Interp(v, lo,
                               CHOOSE j \in after : \A q \in after : j <= q, x)]

\* Series.interpolate(method='linear') with pandas' defaults (positions as
\* abscissae, limit_direction='forward'): a NaN between two values is
\* interpolated, a NaN after the last value takes the last value, a NaN
\* before the first value stays NaN.
InterpolateLinear(v) ==
    LET valid == {j \in 1..Len(v) : notna(v[j])}
    IN  [x \in 1..Len(v) |->
           IF x \in valid THEN v[x]
           ELSE LET before == {j \in valid : j < x}
                    after  == {j \in valid : j > x}
                IN  IF before = {} THEN NaN
                    ELSE LET lo == CHOOSE j \in before : \A q \in before : q <= j
                         IN  IF after = {} THEN v[lo]
                             ELSE Interp(v, lo,
                                    CHOOSE j \in after : \A q \in after : j <= q, x)]

Column(frame, col) == [i \in 1..Len(frame.rows) |-> frame.rows[i][col]]

\* df[col] = values
SetColumn(frame, col, values) ==
    [frame EXCEPT !.rows = [i \in 1..Len(frame.rows) |->
                               [frame.rows[i] EXCEPT ![col] = values[i]]]]

\* Lines 379-381
Interpolate ==
    /\ pc = "interpolate"
    /\ df' = IF \E i \in 1..Len(df.rows) : IsNaN(df.rows[i][real_gdp_col])
             THEN SetColumn(df, real_gdp_col, InterpolateLinear(Column(df, real_gdp_col)))
             ELSE df
    /\ pc' = "finalize"
    /\ UNCHANGED <<input, annual_df, base_year, base_idx, annual_real_gdp, log, file_vars, merge_vars, date_vars>>

\* Mutant of DroppedColumns: the growth-rate column dropped as well.
DroppedColumnsAndGrowth == {real_gdp_col, "year", growth_col}

\* Line 389: the columns dropped from the result.
DroppedColumns == {real_gdp_col, "year"}

\* Lines 387-391
Finalize ==
    /\ pc = "finalize"
    /\ df' = DropColumns(CopyColumn(df, value_col, real_gdp_col), DroppedColumns)
    /\ log' = Append(log, "real values computed")
    /\ pc' = "done"
    /\ UNCHANGED <<input, annual_df, base_year, base_idx, annual_real_gdp, file_vars, merge_vars, date_vars>>

-----------------------------------------------------------------------------
(* Calendar arithmetic behind Series.diff().dt.days and resample('MS').    *)

IsLeap(y) == (y % 4 = 0 /\ y % 100 # 0) \/ y % 400 = 0

DaysInMonth(y, m) ==
    IF m \in {1, 3, 5, 7, 8, 10, 12} THEN 31
    ELSE IF m \in {4, 6, 9, 11} THEN 30
    ELSE IF IsLeap(y) THEN 29 ELSE 28

RECURSIVE DaysBeforeMonth(_, _)
DaysBeforeMonth(y, m) ==
    IF m = 1 THEN 0 ELSE DaysBeforeMonth(y, m - 1) + DaysInMonth(y, m - 1)

\* Days from 0001-01-01 to the date (proleptic Gregorian ordinal).
DayNumber(date) ==
    LET y == Year(date) - 1
    IN  365 * y + (y \div 4) - (y \div 100) + (y \div 400)
          + DaysBeforeMonth(Year(date), Month(date)) + Day(date)

\* Months counted from year 0: the monthly bin a date falls in.
MonthIndex(date) == Year(date) * 12 + Month(date) - 1

\* The label of a monthly bin: the first day of the month ('MS').
MonthStart(mi) == <<mi \div 12, (mi % 12) + 1, 1>>

\* x < y on floats: false when either side is NaN.
FLess(x, y) ==
    IF IsNaN(x) \/ IsNaN(y) THEN FALSE
    ELSE IF x.k = "inf" THEN x.n < 0 /\ ~(y.k = "inf" /\ y.n < 0)
    ELSE IF y.k = "inf" THEN y.n > 0
    ELSE x.n * y.d < y.n * x.d

\* A text cell (object dtype); n tells the texts apart.
Text(i) == [k |-> "str", n |-> i, d |-> 1]

\* Insert x into the ascending sequence s.
RECURSIVE InsertSorted(_, _)
InsertSorted(x, s) ==
    IF s = <<>> THEN <<x>>
    ELSE IF x <= Head(s) THEN <<x>> \o s
    ELSE <<Head(s)>> \o InsertSorted(x, Tail(s))

RECURSIVE SortAscending(_)
SortAscending(s) == IF s = <<>> THEN <<>> ELSE InsertSorted(Head(s), SortAscending(Tail(s)))

\* Series.median() of a sequence of integers: NaN when it is empty, the
\* mean of the two middle values when its length is even.
Median(s) ==
    LET t == SortAscending(s)
        n == Len(t)
    IN  IF n = 0 THEN NaN
        ELSE IF n % 2 = 1 THEN FromInt(t[(n + 1) \div 2])
        ELSE Num(t[n \div 2] + t[(n \div 2) + 1], 2)

\* Rows in ascending date order, rows of equal date kept in their order.
RECURSIVE InsertRow(_, _)
InsertRow(r, s) ==
    IF s = <<>> THEN <<r>>
    ELSE IF DateLess(Head(s)["date"], r["date"]) \/ Head(s)["date"] = r["date"]
    THEN <<Head(s)>> \o InsertRow(r, Tail(s))
    ELSE <<r>> \o s

\* Mutant of SortRows: the rows left in the order given.
SortRowsKeepOrder(rows) == rows

RECURSIVE SortRows(_)
SortRows(rows) ==
    IF rows = <<>> THEN <<>>
    ELSE InsertRow(rows[Len(rows)], SortRows(SubSeq(rows, 1, Len(rows) - 1)))

\* Line 91: abs(df_sorted['date'].diff().dt.days.median())
DateDiff(frame) ==
    LET s == SortRows(frame.rows)
        gaps == [i \in 1..(Len(s) - 1) |->
                   DayNumber(s[i + 1]["date"]) - DayNumber(s[i]["date"])]
        m == Median(gaps)
    IN  IF FSign(m) < 0 THEN FNeg(m) ELSE m

-----------------------------------------------------------------------------
(* The three resampling strategies.                                        *)

\* df.set_index(date_col).sort_index()
SetIndexSorted(frame) == [cols |-> frame.cols, rows |-> SortRows(frame.rows)]

\* select_dtypes(include=[np.number]).columns: the columns without a text
\* cell (the date is the index, not a column; an empty frame read from a
\* file has object columns only).
NumericCols(frame) ==
    {c \in frame.cols \ {"date"} :
        /\ Len(frame.rows) > 0
        /\ \A i \in 1..Len(frame.rows) : frame.rows[i][c].k # "str"}

\* df_indexed[numeric_cols]
SelectNumeric(frame) == DropColumns(frame, frame.cols \ (NumericCols(frame) \cup {"date"}))

RECURSIVE SumSeq(_)
SumSeq(s) == IF s = <<>> THEN FromInt(0) ELSE FAdd(Head(s), SumSeq(Tail(s)))

\* Mutant of Mean: a missing value counted as an observation of 0.
MeanMissingAsZero(values) ==
    LET present == SelectSeq(values, LAMBDA v : notna(v))
    IN  IF values = <<>> THEN NaN
        ELSE FDiv(SumSeq(present), FromInt(Len(values)))

\* mean() of one bin: the mean of the values present (NaN skipped), NaN
\* when none is present.
Mean(values) ==
    LET present == SelectSeq(values, LAMBDA v : notna(v))
    IN  IF present = <<>> THEN NaN
        ELSE FDiv(SumSeq(present), FromInt(Len(present)))

\* Mutant of MonthlyBins: only the months that hold a row.
MonthlyBinsObserved(frame) ==
    SortInts({MonthIndex(frame.rows[i]["date"]) : i \in 1..Len(frame.rows)})

\* The monthly bins of resample('MS'): every month from the month of the
\* first row to the month of the last row of the date-sorted frame.
MonthlyBins(frame) ==
    IF frame.rows = <<>> THEN <<>>
    ELSE LET first == MonthIndex(frame.rows[1]["date"])
             last  == MonthIndex(frame.rows[Len(frame.rows)]["date"])
         IN  [j \in 1..(last - first + 1) |-> first + j - 1]

\* df_numeric.resample('MS').mean() followed by reset_index(): one row per
\* monthly bin, keyed by the month start.
ResampleMonthlyMean(frame) ==
    LET bins == MonthlyBins(frame)
    IN  [cols |-> frame.cols,
         rows |-> [j \in 1..Len(bins) |->
                     [c \in frame.cols |->
                        IF c = "date" THEN MonthStart(bins[j])
                        ELSE Mean(Column(
                               [cols |-> frame.cols,
                                rows |-> SelectSeq(frame.rows,
                                           LAMBDA r : MonthIndex(r["date"]) = bins[j])],
                               c))]]]

\* _aggregate_daily_to_monthly, lines 232-245
AggregateDailyToMonthly(frame) ==
    ResampleMonthlyMean(SelectNumeric(SetIndexSorted(frame)))

\* Series.interpolate(method='linear', limit_direction='both'): as
\* InterpolateLinear, and a NaN before the first value takes the first value.
InterpolateLinearBoth(v) ==
    LET valid == {j \in 1..Len(v) : notna(v[j])}
        fwd   == InterpolateLinear(v)
    IN  [x \in 1..Len(v) |->
           IF valid # {} /\ \A j \in valid : x < j
           THEN v[CHOOSE j \in valid : \A q \in valid : j <= q]
           ELSE fwd[x]]

RECURSIVE InterpolateColumns(_, _)
InterpolateColumns(frame, todo) ==
    IF todo = {} THEN frame
    ELSE LET c == CHOOSE x \in todo : TRUE
         IN  InterpolateColumns(
               SetColumn(frame, c, InterpolateLinearBoth(Column(frame, c))),
               todo \ {c})

\* _interpolate_quarterly_to_monthly, lines 170-188, for
\* config.INTERPOLATION_METHOD = "linear"
InterpolateQuarterlyToMonthly(frame) ==
    LET df_monthly == ResampleMonthlyMean(SelectNumeric(SetIndexSorted(frame)))
    IN  InterpolateColumns(df_monthly, df_monthly.cols \ {"date"})

\* Mutant of MonthlyCopies: the copies keep the day of the observation.
MonthlyCopiesKeepDay(row) ==
    [m \in 1..12 |-> [row EXCEPT !["date"] = <<row["year"], m, Day(row["date"])>>]]

\* Lines 208-213: the twelve monthly copies of one row, dated on the first
\* of each month of the row's year.
MonthlyCopies(row) ==
    [m \in 1..12 |-> [row EXCEPT !["date"] = <<row["year"], m, 1>>]]

RECURSIVE Flatten(_)
Flatten(ss) == IF ss = <<>> THEN <<>> ELSE Head(ss) \o Flatten(Tail(ss))

\* Lines 206-215: all_monthly_data as a frame, rows in the order of df.
RepeatRows(frame) ==
    [cols |-> frame.cols,
     rows |-> Flatten([i \in 1..Len(frame.rows) |-> MonthlyCopies(frame.rows[i])])]

\* _repeat_annual_to_monthly, lines 202-218: rows in the order of the
\* input, every column of the input kept, the year column dropped.
RepeatAnnualToMonthly(frame) == DropColumns(RepeatRows(WithYear(frame)), {"year"})

-----------------------------------------------------------------------------
(* process_file, lines 62-156.                                             *)

\* The default inputs of convert_all_to_monthly (lines 38-41), named here
\* in ASCII: the GDP file and the treasury spread file, both ending in
\* the standard-date suffix.
GDP_FILE == "GDP_standard_date.csv"

SPREAD_FILE == "spread_standard_date.csv"

NoFile == ""

\* Line 140: filename.replace(standard-date suffix, output_suffix + '.csv')
OutputFilename(name) ==
    IF name = GDP_FILE THEN "GDP_monthly.csv"
    ELSE IF name = SPREAD_FILE THEN "spread_monthly.csv"
    ELSE name

EmptyFrame == [cols |-> {}, rows |-> <<>>]

Csv(frame) == [kind |-> "csv", frame |-> frame]

\* A file pandas.read_csv raises on.
Unreadable == [kind |-> "unreadable", frame |-> EmptyFrame]

\* The state of convert_all_to_monthly and create_unified_dataset before
\* either is called.
IdleMerge ==
    /\ files = <<>>
    /\ file_idx = 0
    /\ success_count = 0
    /\ tally = <<>>
    /\ merged_df = EmptyFrame
    /\ merge_idx = 0

\* DateProcessor is not running.
IdleDate ==
    /\ fail_count = 0
    /\ date_column = ""
    /\ sample = <<>>
    /\ conversion_type = ""
    /\ normalized = <<>>

\* Line 94: 'GDP' in filename and the GDP level column in df.columns
is_gdp_data == filename = GDP_FILE /\ value_col \in df.cols

\* Lines 72-76
ProcessFileExists ==
    /\ pc = "process_file"
    /\ IF filename \notin DOMAIN disk
       THEN /\ log' = Append(log, "warning: file not found")
            /\ pc' = "returned"
       ELSE /\ log' = log
            /\ pc' = "read"
    /\ ret' = FALSE
    /\ UNCHANGED <<input, df, gdp_vars, filename, disk, date_diff, method, result_df, df_indexed, merge_vars, date_vars>>

\* Lines 80-82, utils.read_csv_safe
ProcessFileRead ==
    /\ pc = "read"
    /\ IF disk[filename].kind = "unreadable"
       THEN /\ df' = df
            /\ pc' = "returned"
       ELSE /\ df' = disk[filename].frame
            /\ pc' = "detect"
    /\ ret' = FALSE
    /\ UNCHANGED <<input, gdp_vars, log, filename, disk, date_diff, method, result_df, df_indexed, merge_vars, date_vars>>

\* Lines 88-103: the median gap, then the call of _convert_gdp_to_real
\* for GDP data.  A file without a date column raises KeyError, caught at
\* lines 152-156.
ProcessFileDetect ==
    /\ pc = "detect"
    /\ IF "date" \notin df.cols
       THEN /\ log' = Append(log, "error: processing failed")
            /\ pc' = "returned"
            /\ UNCHANGED <<input, date_diff>>
       ELSE /\ date_diff' = DateDiff(df)
            /\ IF is_gdp_data
               THEN /\ log' = Append(log, "GDP data detected")
                    /\ input' = df
                    /\ pc' = "start"
               ELSE /\ log' = log
                    /\ input' = input
                    /\ pc' = "dispatch"
    /\ ret' = FALSE
    /\ UNCHANGED <<df, gdp_vars, filename, disk, method, result_df, df_indexed, merge_vars, date_vars>>

\* Lines 98-114: _convert_gdp_to_real returns into df; the files modelled
\* have no sector columns, so the loop at 105-114 converts nothing more.
ProcessFileGdpReturn ==
    /\ pc = "done"
    /\ filename # NoFile
    /\ pc' = "dispatch"
    /\ UNCHANGED <<input, df, gdp_vars, log, file_vars, merge_vars, date_vars>>

\* Lines 152-156: an exception of _convert_gdp_to_real is caught.
ProcessFileGdpRaised ==
    /\ pc = "raised"
    /\ filename # NoFile
    /\ log' = Append(log, "error: processing failed")
    /\ ret' = FALSE
    /\ pc' = "returned"
    /\ UNCHANGED <<input, df, gdp_vars, filename, disk, date_diff, method, result_df, df_indexed, merge_vars, date_vars>>

\* Mutant of IsQuarterlyGap: both bounds inclusive.
IsQuarterlyGapInclusive(gap) ==
    ~FLess(gap, FromInt(50)) /\ ~FLess(FromInt(120), gap) /\ notna(gap)

\* Line 122: date_diff > 50 and date_diff < 120
IsQuarterlyGap(gap) == FLess(FromInt(50), gap) /\ FLess(gap, FromInt(120))

\* Line 116: date_diff < 10
IsDailyGap(gap) == FLess(gap, FromInt(10))

\* Line 128: date_diff > 300
IsAnnualGap(gap) == FLess(FromInt(300), gap)

\* Lines 116-137: the branch on the median gap.  _repeat_annual_to_monthly
\* adds the year column to the caller's frame (line 203).
ProcessFileDispatch ==
    /\ pc = "dispatch"
    /\ IF IsDailyGap(date_diff)
       THEN /\ log' = Append(log, "daily data detected")
            /\ result_df' = AggregateDailyToMonthly(df)
            /\ method' = "daily mean"
            /\ df' = df
            /\ pc' = "save"
       ELSE IF IsQuarterlyGap(date_diff)
       THEN /\ log' = Append(log, "quarterly data detected")
            /\ result_df' = InterpolateQuarterlyToMonthly(df)
            /\ method' = "linear interpolation"
            /\ df' = df
            /\ pc' = "save"
       ELSE IF IsAnnualGap(date_diff)
       THEN /\ log' = Append(log, "annual data detected")
            /\ result_df' = RepeatAnnualToMonthly(df)
            /\ method' = "annual repeat"
            /\ df' = WithYear(df)
            /\ pc' = "save"
       ELSE /\ log' = Append(log, "already monthly, no conversion")
            /\ pc' = "returned"
            /\ UNCHANGED <<df, result_df, method>>
    /\ ret' = FALSE
    /\ UNCHANGED <<input, gdp_vars, filename, disk, date_diff, df_indexed, merge_vars, date_vars>>

\* disk with the file name written.
WriteFile(dir, name, content) ==
    [n \in DOMAIN dir \cup {name} |-> IF n = name THEN content ELSE dir[n]]

\* Lines 139-156, utils.save_csv_safe: the write may fail.
ProcessFileSave ==
    /\ pc = "save"
    /\ \E saved \in BOOLEAN :
         IF saved
         THEN /\ disk' = WriteFile(disk, OutputFilename(filename), Csv(result_df))
              /\ log' = Append(log, "conversion complete")
              /\ ret' = TRUE
         ELSE /\ disk' = disk
              /\ log' = log
              /\ ret' = FALSE
    /\ pc' = "returned"
    /\ UNCHANGED <<input, df, gdp_vars, filename, date_diff, method, result_df, df_indexed, merge_vars, date_vars>>

-----------------------------------------------------------------------------
(* _aggregate_daily_to_monthly called on its own, lines 220-245.           *)

\* Lines 232-233
AggregateIndex ==
    /\ pc = "aggregate_daily"
    /\ df_indexed' = SetIndexSorted(df)
    /\ pc' = "aggregate_resample"
    /\ UNCHANGED <<input, df, gdp_vars, log, filename, disk, date_diff, method, result_df, ret, merge_vars, date_vars>>

\* Lines 236-245
AggregateResample ==
    /\ pc = "aggregate_resample"
    /\ result_df' = ResampleMonthlyMean(SelectNumeric(df_indexed))
    /\ pc' = "aggregate_returned"
    /\ UNCHANGED <<input, df, gdp_vars, log, filename, disk, date_diff, method, ret, df_indexed, merge_vars, date_vars>>

-----------------------------------------------------------------------------
(* _interpolate_quarterly_to_monthly called on its own, lines 158-188.     *)

\* Lines 170-171
QuarterlyIndex ==
    /\ pc = "interpolate_quarterly"
    /\ df_indexed' = SetIndexSorted(df)
    /\ pc' = "quarterly_resample"
    /\ UNCHANGED <<input, df, gdp_vars, log, filename, disk, date_diff, method, result_df, ret, merge_vars, date_vars>>

\* Lines 173-178: df_monthly before the interpolation
QuarterlyResample ==
    /\ pc = "quarterly_resample"
    /\ result_df' = ResampleMonthlyMean(SelectNumeric(df_indexed))
    /\ pc' = "quarterly_interpolate"
    /\ UNCHANGED <<input, df, gdp_vars, log, filename, disk, date_diff, method, ret, df_indexed, merge_vars, date_vars>>

\* Lines 179-188
QuarterlyInterpolate ==
    /\ pc = "quarterly_interpolate"
    /\ result_df' = InterpolateColumns(result_df, result_df.cols \ {"date"})
    /\ pc' = "quarterly_returned"
    /\ UNCHANGED <<input, df, gdp_vars, log, filename, disk, date_diff, method, ret, df_indexed, merge_vars, date_vars>>

-----------------------------------------------------------------------------
(* _repeat_annual_to_monthly called on its own, lines 190-218.             *)

\* Lines 202-203: the year column is added to the frame passed in.
AnnualYearColumn ==
    /\ pc = "repeat_annual"
    /\ df' = WithYear(df)
    /\ pc' = "annual_rows"
    /\ UNCHANGED <<input, gdp_vars, log, file_vars, merge_vars, date_vars>>

\* Lines 205-218
AnnualRepeat ==
    /\ pc = "annual_rows"
    /\ result_df' = DropColumns(RepeatRows(df), {"year"})
    /\ pc' = "annual_returned"
    /\ UNCHANGED <<input, df, gdp_vars, log, filename, disk, date_diff, method, ret, df_indexed, merge_vars, date_vars>>

-----------------------------------------------------------------------------
(* create_unified_dataset, lines 393-480.                                  *)

\* The files read by the merge and the file it writes, named in ASCII.
CPI_FILE == "CPI_standard_date.csv"

PPI_FILE == "PPI_standard_date.csv"

PMI_FILE == "PMI_standard_date.csv"

LOANS_FILE == "loans_standard_date.csv"

GDP_MONTHLY_FILE == "GDP_monthly.csv"

SPREAD_MONTHLY_FILE == "spread_monthly.csv"

\* config.OUTPUT_FILES['unified_monthly']
UNIFIED_FILE == "unified_monthly.csv"

\* Lines 403-410: file name and the columns wanted from it, in dict order.
files_to_merge ==
    << <<CPI_FILE, <<"national_month", "national_yoy">>>>,
       <<PPI_FILE, <<"month", "month_yoy">>>>,
       <<PMI_FILE, <<"manufacturing_index">>>>,
       <<LOANS_FILE, <<"month", "month_yoy_growth">>>>,
       <<GDP_MONTHLY_FILE, <<value_col, growth_col>>>>,
       <<SPREAD_MONTHLY_FILE, <<"spread">>>> >>

\* Line 451: filename.split('_')[0]
Prefix(name) ==
    IF name = CPI_FILE THEN "CPI"
    ELSE IF name = PPI_FILE THEN "PPI"
    ELSE IF name = PMI_FILE THEN "PMI"
    ELSE IF name = LOANS_FILE THEN "loans"
    ELSE IF name \in {GDP_MONTHLY_FILE, GDP_FILE} THEN "GDP"
    ELSE "spread"

\* Line 452: f'{prefix}_{i}' for i = 0, 1
Numbered(prefix, i) ==
    IF prefix = "CPI" THEN <<"CPI_0", "CPI_1">>[i + 1]
    ELSE IF prefix = "PPI" THEN <<"PPI_0", "PPI_1">>[i + 1]
    ELSE IF prefix = "PMI" THEN <<"PMI_0", "PMI_1">>[i + 1]
    ELSE IF prefix = "loans" THEN <<"loans_0", "loans_1">>[i + 1]
    ELSE IF prefix = "GDP" THEN <<"GDP_0", "GDP_1">>[i + 1]
    ELSE <<"spread_0", "spread_1">>[i + 1]

\* Line 443: the wanted columns the file holds, in the order wanted.
AvailableCols(columns, frame) == SelectSeq(columns, LAMBDA c : c \in frame.cols)

\* Mutant of RenameDict: every column of a file is given the number 0.
RenameDictAllZero(name, available_cols) ==
    [c \in {available_cols[i] : i \in 1..Len(available_cols)} |->
       Numbered(Prefix(name), 0)]

\* Lines 451-452: rename_dict, column -> prefix and 0-based position among
\* the available columns.
RenameDict(name, available_cols) ==
    [c \in {available_cols[i] : i \in 1..Len(available_cols)} |->
       Numbered(Prefix(name),
                (CHOOSE i \in 1..Len(available_cols) : available_cols[i] = c) - 1)]

\* Line 424: the names given to the two base columns.
BaseRename == [c \in {"national_month", "national_yoy"} |->
                 IF c = "national_month" THEN "CPI" ELSE "CPI_yoy"]

\* df[cols]
SelectColumns(frame, keep) == DropColumns(frame, frame.cols \ keep)

\* df.rename(columns=rename)
RenameColumns(frame, rename) ==
    LET NewName(c) == IF c \in DOMAIN rename THEN rename[c] ELSE c
        names == {NewName(c) : c \in frame.cols}
    IN  [cols |-> names,
         rows |-> [i \in 1..Len(frame.rows) |->
                     [n \in names |->
                        frame.rows[i][CHOOSE c \in frame.cols : NewName(c) = n]]]]

\* The rows pd.merge(how='outer') gives one date: every pairing of a left
\* row with a right row of that date, and a side without such a row
\* filled with missing values.
MergedRowsOf(left, right, date) ==
    LET cols == left.cols \cup right.cols
        ls == SelectSeq(left.rows, LAMBDA r : r["date"] = date)
        rs == SelectSeq(right.rows, LAMBDA r : r["date"] = date)
        Cell(l, r, c) ==
            IF c = "date" THEN date
            ELSE IF c \in left.cols THEN (IF l = 0 THEN NaN ELSE ls[l][c])
            ELSE (IF r = 0 THEN NaN ELSE rs[r][c])
        li == IF ls = <<>> THEN <<0>> ELSE [i \in 1..Len(ls) |-> i]
        ri == IF rs = <<>> THEN <<0>> ELSE [i \in 1..Len(rs) |-> i]
    IN  Flatten([a \in 1..Len(li) |->
                   [b \in 1..Len(ri) |-> [c \in cols |-> Cell(li[a], ri[b], c)]]])

\* Mutant of JoinKeys: the dates of the left frame only (a left join).
JoinKeysLeft(left, right) ==
    {left.rows[i]["date"] : i \in 1..Len(left.rows)}

\* how='outer': the dates of either frame.
JoinKeys(left, right) ==
    {left.rows[i]["date"] : i \in 1..Len(left.rows)}
      \cup {right.rows[i]["date"] : i \in 1..Len(right.rows)}

RECURSIVE SortDates(_)
SortDates(S) ==
    IF S = {} THEN <<>>
    ELSE LET m == CHOOSE x \in S : \A y \in S : x = y \/ DateLess(x, y)
         IN  <<m>> \o SortDates(S \ {m})

\* Line 456: pd.merge(left, right, on='date', how='outer')
Merge(left, right) ==
    LET keys == SortDates(JoinKeys(left, right))
    IN  [cols |-> left.cols \cup right.cols,
         rows |-> Flatten([k \in 1..Len(keys) |-> MergedRowsOf(left, right, keys[k])])]

\* Lines 412-426: the base series.  A base file without the date column or
\* a base column raises KeyError at line 423, which nothing catches.
UnifiedBase ==
    /\ pc = "create_unified_dataset"
    /\ IF CPI_FILE \notin DOMAIN disk
       THEN /\ log' = Append(log, "error: base file not found")
            /\ pc' = "unified_none"
            /\ UNCHANGED <<merged_df, merge_idx>>
       ELSE IF disk[CPI_FILE].kind = "unreadable"
       THEN /\ pc' = "unified_none"
            /\ UNCHANGED <<log, merged_df, merge_idx>>
       ELSE IF ~({"date", "national_month", "national_yoy"} \subseteq disk[CPI_FILE].frame.cols)
       THEN /\ pc' = "crashed"
            /\ UNCHANGED <<log, merged_df, merge_idx>>
       ELSE /\ merged_df' = RenameColumns(
                              SelectColumns(disk[CPI_FILE].frame,
                                            {"date", "national_month", "national_yoy"}),
                              BaseRename)
            /\ merge_idx' = 2
            /\ log' = Append(log, "base data: CPI")
            /\ pc' = "unified_merge"
    /\ UNCHANGED <<input, df, gdp_vars, file_vars, files, file_idx, success_count, tally, date_vars>>

\* Lines 429-457: one turn of the loop over the other files.  A file
\* without a date column raises KeyError at line 440.
UnifiedMerge ==
    /\ pc = "unified_merge"
    /\ merge_idx <= Len(files_to_merge)
    /\ LET name    == files_to_merge[merge_idx][1]
           columns == files_to_merge[merge_idx][2]
       IN  IF name \notin DOMAIN disk
           THEN /\ log' = Append(log, "warning: file skipped")
                /\ UNCHANGED merged_df
                /\ pc' = pc
           ELSE IF disk[name].kind = "unreadable"
           THEN UNCHANGED <<log, merged_df, pc>>
           ELSE IF "date" \notin disk[name].frame.cols
           THEN /\ pc' = "crashed"
                /\ UNCHANGED <<log, merged_df>>
           ELSE LET frame == disk[name].frame
                    available_cols == AvailableCols(columns, frame)
                    df_subset ==
                        RenameColumns(
                          SelectColumns(frame, {"date"} \cup DOMAIN RenameDict(name, available_cols)),
                          RenameDict(name, available_cols))
                IN  IF available_cols = <<>>
                    THEN /\ log' = Append(log, "warning: file skipped, no column found")
                         /\ UNCHANGED <<merged_df, pc>>
                    ELSE /\ merged_df' = Merge(merged_df, df_subset)
                         /\ log' = Append(log, "merged")
                         /\ pc' = pc
    /\ merge_idx' = merge_idx + 1
    /\ UNCHANGED <<input, df, gdp_vars, file_vars, files, file_idx, success_count, tally, date_vars>>

\* Lines 459-460
UnifiedSort ==
    /\ pc = "unified_merge"
    /\ merge_idx > Len(files_to_merge)
    /\ merged_df' = [merged_df EXCEPT !.rows = SortRows(merged_df.rows)]
    /\ pc' = "unified_save"
    /\ UNCHANGED <<input, df, gdp_vars, log, file_vars, files, file_idx, success_count, tally, merge_idx, date_vars>>

\* Lines 462-480, utils.save_csv_safe: the write may fail.
UnifiedSave ==
    /\ pc = "unified_save"
    /\ \E saved \in BOOLEAN :
         IF saved
         THEN /\ disk' = WriteFile(disk, UNIFIED_FILE, Csv(merged_df))
              /\ log' = Append(log, "unified dataset written")
              /\ pc' = "unified_returned"
         ELSE /\ disk' = disk
              /\ log' = log
              /\ pc' = "unified_none"
    /\ UNCHANGED <<input, df, gdp_vars, filename, date_diff, method, result_df, ret, df_indexed, merge_vars, date_vars>>

-----------------------------------------------------------------------------
(* convert_all_to_monthly, lines 28-60: process_file for every file of     *)
(* the list in turn, then create_unified_dataset when a file converted.    *)
(* tally records what each call of process_file returned, in order.        *)

\* Lines 40-44: the default list
DefaultFiles == <<GDP_FILE, SPREAD_FILE>>

\* Mutant of LoopDone: the loop left after the first file.
LoopDoneAfterFirst == file_idx > 1

\* Line 48: the for loop has no file left.
LoopDone == file_idx > Len(files)

\* Lines 38-46
ConvertAllStart ==
    /\ pc = "convert_all"
    /\ success_count' = 0
    /\ file_idx' = 1
    /\ tally' = <<>>
    /\ log' = Append(log, "frequency unification")
    /\ pc' = "convert_all_loop"
    /\ UNCHANGED <<input, df, gdp_vars, file_vars, files, merged_df, merge_idx, date_vars>>

\* Lines 48-49: the call of process_file on the next file, with fresh
\* locals.
ConvertAllCall ==
    /\ pc = "convert_all_loop"
    /\ ~LoopDone
    /\ filename' = files[file_idx]
    /\ input' = EmptyFrame
    /\ df' = EmptyFrame
    /\ annual_df' = <<>>
    /\ base_year' = BASE_YEAR
    /\ base_idx' = 0
    /\ annual_real_gdp' = <<>>
    /\ date_diff' = NaN
    /\ method' = ""
    /\ result_df' = EmptyFrame
    /\ ret' = FALSE
    /\ df_indexed' = EmptyFrame
    /\ pc' = "process_file"
    /\ UNCHANGED <<log, disk, merge_vars, date_vars>>

\* Lines 49-50: process_file has returned.
ConvertAllCount ==
    /\ pc = "returned"
    /\ file_idx \in 1..Len(files)
    /\ success_count' = IF ret THEN success_count + 1 ELSE success_count
    /\ tally' = Append(tally, ret)
    /\ file_idx' = file_idx + 1
    /\ pc' = "convert_all_loop"
    /\ UNCHANGED <<input, df, gdp_vars, log, file_vars, files, merged_df, merge_idx, date_vars>>

\* Lines 52-58
ConvertAllSummary ==
    /\ pc = "convert_all_loop"
    /\ LoopDone
    /\ log' = Append(log, "conversion finished")
    /\ pc' = IF success_count > 0 THEN "create_unified_dataset" ELSE "convert_all_returned"
    /\ UNCHANGED <<input, df, gdp_vars, file_vars, merge_vars, date_vars>>

\* Line 60: create_unified_dataset has returned, its result unused.
ConvertAllReturn ==
    /\ pc \in {"unified_returned", "unified_none"}
    /\ files # <<>>
    /\ pc' = "convert_all_returned"
    /\ UNCHANGED <<input, df, gdp_vars, log, file_vars, merge_vars, date_vars>>

-----------------------------------------------------------------------------
(* DateProcessor, src/code/modules/date_processor.py.                      *)
(* A text is a sequence of characters.  The characters of the patterns     *)
(* that are not ASCII are written with one letter each: "Y" the year sign  *)
(* (nian), "M" the month sign (yue), "F" the second character of the month *)
(* suffix (fen), "O" the ordinal sign (di), "J" and "D" the two characters *)
(* of the quarter sign (ji, du).  "x" is a character of no pattern.        *)

Digit == {"0", "1", "2", "3", "4", "5", "6", "7", "8", "9"}

DigitChar(n) == <<"0", "1", "2", "3", "4", "5", "6", "7", "8", "9">>[n + 1]

DigitValue(c) == CHOOSE n \in 0..9 : DigitChar(n) = c

\* The value a Python function returns for no match.
None == <<"None">>

\* The outcome of a conversion that raised KeyError.
KeyError == <<"KeyError">>

\* s[p:p+n] consists of n digits
IsDigits(s, p, n) == p >= 1 /\ p + n - 1 <= Len(s) /\ \A i \in p..(p + n - 1) : s[i] \in Digit

\* s[p:p+len(sub)] == sub
SubAt(s, p, sub) ==
    p >= 1 /\ p + Len(sub) - 1 <= Len(s) /\ \A i \in 1..Len(sub) : s[p + i - 1] = sub[i]

\* sub in s
Contains(s, sub) == \E p \in 1..Len(s) : SubAt(s, p, sub)

Slice(s, p, n) == SubSeq(s, p, p + n - 1)

\* The least member of a non-empty set of positions (re.search: the
\* leftmost match).
Leftmost(P) == CHOOSE p \in P : \A q \in P : p <= q

\* int(text) of a text of digits
RECURSIVE IntOf(_)
IntOf(s) == IF s = <<>> THEN 0 ELSE 10 * IntOf(SubSeq(s, 1, Len(s) - 1)) + DigitValue(s[Len(s)])

\* Line 167: re.match(r'\d{4}-\d{2}-\d{2}', sample), a match of the prefix
StandardPrefix(s) ==
    /\ IsDigits(s, 1, 4) /\ SubAt(s, 5, <<"-">>)
    /\ IsDigits(s, 6, 2) /\ SubAt(s, 8, <<"-">>)
    /\ IsDigits(s, 9, 2)

\* Mutant of DetectDateFormat: any text with the year sign taken as monthly.
DetectDateFormatLenient(s) ==
    IF Contains(s, <<"Y">>) THEN "monthly"
    ELSE IF Contains(s, <<"z", "b", ".", "A">>) /\ Contains(s, <<"_", "s", "j", ".">>)
    THEN "code"
    ELSE IF StandardPrefix(s) THEN "standard"
    ELSE ""

\* Lines 149-170: _detect_date_format, "" for None
DetectDateFormat(s) ==
    IF Contains(s, <<"Y">>) /\ Contains(s, <<"M", "F">>) THEN "monthly"
    ELSE IF Contains(s, <<"Y">>) /\ Contains(s, <<"J", "D">>) THEN "quarterly"
    ELSE IF Contains(s, <<"z", "b", ".", "A">>) /\ Contains(s, <<"_", "s", "j", ".">>)
    THEN "code"
    ELSE IF StandardPrefix(s) THEN "standard"
    ELSE ""

\* Line 197: the positions where (\d{4})Y(\d{1,2})M matches
MonthMatches(s) ==
    {p \in 1..Len(s) :
        /\ IsDigits(s, p, 4) /\ SubAt(s, p + 4, <<"Y">>)
        /\ \/ IsDigits(s, p + 5, 2) /\ SubAt(s, p + 7, <<"M">>)
           \/ IsDigits(s, p + 5, 1) /\ SubAt(s, p + 6, <<"M">>)}

\* str.zfill(2)
Zfill2(s) == IF Len(s) < 2 THEN <<"0">> \o s ELSE s

\* Lines 194-202: _convert_chinese_month_to_date
ConvertChineseMonthToDate(s) ==
    IF MonthMatches(s) = {} THEN None
    ELSE LET p == Leftmost(MonthMatches(s))
             year == Slice(s, p, 4)
             month == IF IsDigits(s, p + 5, 2) THEN Slice(s, p + 5, 2) ELSE Slice(s, p + 5, 1)
         IN  year \o <<"-">> \o Zfill2(month) \o <<"-", "0", "1">>

\* Line 207: the positions where (\d{4})YO(\d)(?:-(\d))?JD matches
QuarterMatches(s) ==
    {p \in 1..Len(s) :
        /\ IsDigits(s, p, 4) /\ SubAt(s, p + 4, <<"Y", "O">>) /\ IsDigits(s, p + 6, 1)
        /\ \/ SubAt(s, p + 7, <<"-">>) /\ IsDigits(s, p + 8, 1) /\ SubAt(s, p + 9, <<"J", "D">>)
           \/ SubAt(s, p + 7, <<"J", "D">>)}

\* Lines 213-218: quarter_end_dates, month and day of the quarter's end
quarter_end_dates == [q \in 1..4 |-> <<<<"0", "3", "-", "3", "1">>, <<"0", "6", "-", "3", "0">>,
                                       <<"0", "9", "-", "3", "0">>, <<"1", "2", "-", "3", "1">>>>[q]]

\* Lines 204-220: _convert_chinese_quarter_to_date
ConvertChineseQuarterToDate(s) ==
    IF QuarterMatches(s) = {} THEN None
    ELSE LET p == Leftmost(QuarterMatches(s))
             year == Slice(s, p, 4)
             start_q == DigitValue(s[p + 6])
             end_q == IF SubAt(s, p + 7, <<"-">>) THEN DigitValue(s[p + 8]) ELSE start_q
         IN  IF end_q \in DOMAIN quarter_end_dates
             THEN year \o <<"-">> \o quarter_end_dates[end_q]
             ELSE KeyError

\* Line 225: the positions where _sj\.(\d{4}) matches
CodeMatches(s) ==
    {p \in 1..Len(s) : SubAt(s, p, <<"_", "s", "j", ".">>) /\ IsDigits(s, p + 4, 4)}

\* Lines 222-229: _extract_year_from_code
ExtractYearFromCode(s) ==
    IF CodeMatches(s) = {} THEN None
    ELSE Slice(s, Leftmost(CodeMatches(s)) + 4, 4) \o <<"-", "1", "2", "-", "3", "1">>

\* Mutant of ConvertValue: a standard date moved to the first of its month.
ConvertValueMonthStart(s, type) ==
    IF type = "monthly" THEN ConvertChineseMonthToDate(s)
    ELSE IF type = "quarterly" THEN ConvertChineseQuarterToDate(s)
    ELSE IF type = "code" THEN ExtractYearFromCode(s)
    ELSE IF Len(s) >= 10 THEN Slice(s, 1, 8) \o <<"0", "1">>
    ELSE s

\* Lines 172-192: _convert_dates on one value of the series
ConvertValue(s, type) ==
    IF type = "monthly" THEN ConvertChineseMonthToDate(s)
    ELSE IF type = "quarterly" THEN ConvertChineseQuarterToDate(s)
    ELSE IF type = "code" THEN ExtractYearFromCode(s)
    ELSE s

\* str(value), line 113: None prints as the text None.
Str(v) == IF v = None THEN <<"N", "o", "n", "e">> ELSE v

-----------------------------------------------------------------------------
(* DateProcessor.process_all_files and convert_file_dates, lines 26-147.   *)

GDP_RAW == "GDP_raw.csv"

SPREAD_RAW == "spread_raw.csv"

\* A file name that is no key of file_date_columns.
NOTES_FILE == "notes.csv"

\* Lines 43-55: file_date_columns
file_date_columns ==
    [n \in {"PPI_raw.csv", "CPI_raw.csv", "M2_raw.csv", "loans_raw.csv", "PMI_raw.csv",
            GDP_RAW, "climate_raw.csv", "SHIBOR_raw.csv", "services_PMI_raw.csv",
            "wages_raw.csv", SPREAD_RAW} |->
        IF n \in {"PPI_raw.csv", "CPI_raw.csv", "M2_raw.csv", "loans_raw.csv", "PMI_raw.csv"}
        THEN "month"
        ELSE IF n \in {GDP_RAW, "climate_raw.csv"} THEN "quarter"
        ELSE IF n = "SHIBOR_raw.csv" THEN "report_day"
        ELSE IF n = "services_PMI_raw.csv" THEN "day"
        ELSE IF n = "wages_raw.csv" THEN "code"
        ELSE "date"]

\* Line 110: f'{date_column}_<suffix>', the name of the backup column
BackupColumn(col) ==
    IF col = "month" THEN "month_original"
    ELSE IF col = "quarter" THEN "quarter_original"
    ELSE IF col = "report_day" THEN "report_day_original"
    ELSE IF col = "day" THEN "day_original"
    ELSE IF col = "code" THEN "code_original"
    ELSE "date_original"

\* Lines 129-131: the name of the output file
StandardName(name) ==
    IF name = GDP_RAW THEN GDP_FILE
    ELSE IF name = SPREAD_RAW THEN SPREAD_FILE
    ELSE IF name = "CPI_raw.csv" THEN CPI_FILE
    ELSE IF name = "PPI_raw.csv" THEN PPI_FILE
    ELSE IF name = "PMI_raw.csv" THEN PMI_FILE
    ELSE IF name = "loans_raw.csv" THEN LOANS_FILE
    ELSE "other_standard_date.csv"

\* pd.to_datetime on one value raises: a text that is no calendar date.
\* None becomes NaT.
NotADate(v) ==
    /\ v # None
    /\ ~(/\ Len(v) = 10 /\ StandardPrefix(v)
         /\ IntOf(Slice(v, 6, 2)) \in 1..12
         /\ IntOf(Slice(v, 9, 2))
              \in 1..DaysInMonth(IntOf(Slice(v, 1, 4)), IntOf(Slice(v, 6, 2))))

\* Lines 36-58
ProcessAllStart ==
    /\ pc = "process_all_files"
    /\ success_count' = 0
    /\ fail_count' = 0
    /\ file_idx' = 1
    /\ tally' = <<>>
    /\ log' = Append(log, "date format unification")
    /\ pc' = "dates_loop"
    /\ UNCHANGED <<input, df, gdp_vars, file_vars, files, merged_df, merge_idx,
                   date_column, sample, conversion_type, normalized>>

\* Lines 60-67: the next file of the list; a file that is no key of
\* file_date_columns is passed over.
ProcessAllNext ==
    /\ pc = "dates_loop"
    /\ file_idx <= Len(files)
    /\ IF files[file_idx] \notin DOMAIN file_date_columns
       THEN /\ file_idx' = file_idx + 1
            /\ UNCHANGED <<pc, filename, date_column, df, sample, conversion_type, ret>>
       ELSE /\ filename' = files[file_idx]
            /\ date_column' = file_date_columns[files[file_idx]]
            /\ df' = EmptyFrame
            /\ sample' = <<>>
            /\ conversion_type' = ""
            /\ ret' = FALSE
            /\ pc' = "convert_file_dates"
            /\ UNCHANGED file_idx
    /\ UNCHANGED <<input, gdp_vars, log, disk, date_diff, method, result_df, df_indexed,
                   files, success_count, tally, merged_df, merge_idx, fail_count, normalized>>

\* Lines 93-97
ConvertFileExists ==
    /\ pc = "convert_file_dates"
    /\ IF filename \notin DOMAIN disk
       THEN /\ log' = Append(log, "warning: file not found")
            /\ pc' = "dates_file_returned"
       ELSE /\ log' = log
            /\ pc' = "dates_read"
    /\ ret' = FALSE
    /\ UNCHANGED <<input, df, gdp_vars, filename, disk, date_diff, method, result_df,
                   df_indexed, merge_vars, date_vars>>

\* Lines 99-118: read, column check, backup column, sample and format.
\* iloc[0] of an empty column raises IndexError, caught at line 143.
ConvertFileDetect ==
    /\ pc = "dates_read"
    /\ IF disk[filename].kind = "unreadable"
       THEN /\ pc' = "dates_file_returned"
            /\ UNCHANGED <<df, log, sample, conversion_type>>
       ELSE IF date_column \notin disk[filename].frame.cols
       THEN /\ df' = disk[filename].frame
            /\ log' = Append(log, "warning: column not found")
            /\ pc' = "dates_file_returned"
            /\ UNCHANGED <<sample, conversion_type>>
       ELSE LET backed == CopyColumn(disk[filename].frame, BackupColumn(date_column),
                                     date_column)
            IN  /\ df' = backed
                /\ IF Len(backed.rows) = 0
                   THEN /\ log' = Append(log, "error: conversion failed")
                        /\ pc' = "dates_file_returned"
                        /\ UNCHANGED <<sample, conversion_type>>
                   ELSE /\ sample' = Str(backed.rows[1][date_column])
                        /\ conversion_type' = DetectDateFormat(Str(backed.rows[1][date_column]))
                        /\ IF DetectDateFormat(Str(backed.rows[1][date_column])) = ""
                           THEN /\ log' = Append(log, "warning: unrecognized date format")
                                /\ pc' = "dates_file_returned"
                           ELSE /\ log' = log
                                /\ pc' = "dates_convert"
    /\ ret' = FALSE
    /\ UNCHANGED <<input, gdp_vars, filename, disk, date_diff, method, result_df,
                   df_indexed, merge_vars, fail_count, date_column, normalized>>

\* The date column line 121 computes for the rows of frame.
ConvertedDates(frame, col, type) ==
    [i \in 1..Len(frame.rows) |-> ConvertValue(frame.rows[i][col], type)]

\* Lines 121-125: the date column set; a KeyError of the quarter table is
\* caught at line 143.
ConvertFileConvert ==
    /\ pc = "dates_convert"
    /\ LET dates == ConvertedDates(df, date_column, conversion_type)
       IN  IF \E i \in 1..Len(dates) : dates[i] = KeyError
           THEN /\ log' = Append(log, "error: conversion failed")
                /\ pc' = "dates_file_returned"
                /\ df' = df
           ELSE /\ df' = SetColumn(IF "date" \in df.cols THEN df
                                   ELSE WithColumn(df, "date", None),
                                   "date", dates)
                /\ log' = log
                /\ pc' = "dates_save"
    /\ ret' = FALSE
    /\ UNCHANGED <<input, gdp_vars, filename, disk, date_diff, method, result_df,
                   df_indexed, merge_vars, date_vars>>

\* Lines 128-147: the file is written, then utils.get_date_range parses
\* the date column: pd.to_datetime raises on a text that is no date (caught
\* at line 143, after the write), and start.date() of a column with no date
\* at all is NaT.date(), whose outcome depends on the pandas build.
ConvertFileSave ==
    /\ pc = "dates_save"
    /\ \E saved \in BOOLEAN : \E nat_ok \in BOOLEAN :
         IF ~saved
         THEN /\ disk' = disk
              /\ log' = log
              /\ ret' = FALSE
         ELSE /\ disk' = WriteFile(disk, StandardName(filename), Csv(df))
              /\ IF \E i \in 1..Len(df.rows) : NotADate(df.rows[i]["date"])
                 THEN /\ log' = Append(log, "error: conversion failed")
                      /\ ret' = FALSE
                 ELSE IF (\A i \in 1..Len(df.rows) : df.rows[i]["date"] = None) /\ ~nat_ok
                 THEN /\ log' = Append(log, "error: conversion failed")
                      /\ ret' = FALSE
                 ELSE /\ log' = Append(log, "dates converted")
                      /\ ret' = TRUE
    /\ pc' = "dates_file_returned"
    /\ UNCHANGED <<input, df, gdp_vars, filename, date_diff, method, result_df,
                   df_indexed, merge_vars, date_vars>>

\* Lines 67-70
ProcessAllCount ==
    /\ pc = "dates_file_returned"
    /\ file_idx \in 1..Len(files)
    /\ success_count' = IF ret THEN success_count + 1 ELSE success_count
    /\ fail_count' = IF ret THEN fail_count ELSE fail_count + 1
    /\ tally' = Append(tally, ret)
    /\ file_idx' = file_idx + 1
    /\ pc' = "dates_loop"
    /\ UNCHANGED <<input, df, gdp_vars, log, file_vars, files, merged_df, merge_idx,
                   date_column, sample, conversion_type, normalized>>

\* Lines 72-78
ProcessAllReturn ==
    /\ pc = "dates_loop"
    /\ file_idx > Len(files)
    /\ log' = IF fail_count > 0
              THEN log \o <<"conversion finished", "warning: files failed">>
              ELSE Append(log, "conversion finished")
    /\ pc' = "dates_returned"
    /\ UNCHANGED <<input, df, gdp_vars, file_vars, merge_vars, date_vars>>

\* Normalising one value as convert_file_dates normalises a column whose
\* first value it is: the format detected from the value (lines 113-114),
\* then the conversion (line 121), then the same again on the result.
NormalizeDetect ==
    /\ pc = "normalize"
    /\ conversion_type' = DetectDateFormat(Str(sample))
    /\ pc' = IF DetectDateFormat(Str(sample)) = "" THEN "unrecognized" ELSE "normalize_convert"
    /\ UNCHANGED <<input, df, gdp_vars, log, file_vars, merge_vars,
                   fail_count, date_column, sample, normalized>>

NormalizeConvert ==
    /\ pc = "normalize_convert"
    /\ normalized' = Append(normalized, ConvertValue(sample, conversion_type))
    /\ pc' = "normalized"
    /\ UNCHANGED <<input, df, gdp_vars, log, file_vars, merge_vars,
                   fail_count, date_column, sample, conversion_type>>

NormalizeAgain ==
    /\ pc = "normalized"
    /\ Len(normalized) = 1
    /\ normalized[1] # KeyError
    /\ sample' = normalized[1]
    /\ pc' = "normalize"
    /\ UNCHANGED <<input, df, gdp_vars, log, file_vars, merge_vars,
                   fail_count, date_column, conversion_type, normalized>>

-----------------------------------------------------------------------------
(* Inputs of _convert_gdp_to_real: a nominal level and a growth rate       *)
(* (possibly missing) per record, records dated at quarter ends (the dates *)
(* the date normaliser writes for quarterly text), no two records on the   *)
(* same date.                                                              *)

YearSpan == 2

MaxRows == 3

Years == (BASE_YEAR - YearSpan)..(BASE_YEAR + YearSpan)

Grid(monthDays) == {<<y, md[1], md[2]>> : y \in Years, md \in monthDays}

\* Full-year records only.
AnnualGrid == Grid({<<12, 31>>})

\* Cumulative quarterly records: several records within a year.
QuarterGrid == Grid({<<3, 31>>, <<6, 30>>, <<12, 31>>})

\* The nominal level of a record: cumulative within the year (a quarter of
\* the annual level by March, half by June), the annual level 1000 in the
\* base year and 100 more each year, so no two records share a level.
NominalLevel(date) ==
    FromInt(((1000 + 100 * (Year(date) - BASE_YEAR)) * Month(date)) \div 12)

Growths == {NaN, FromInt(-100), FromInt(4), FromInt(5)}

GdpRow(date, level, growth) ==
    [c \in {"date", value_col, growth_col} |->
        IF c = "date" THEN date ELSE IF c = value_col THEN level ELSE growth]

GdpFrame(rows) == [cols |-> {"date", value_col, growth_col}, rows |-> rows]

\* input is a file of at most MaxRows records dated in grid, with growth
\* rates from the given set, oldest record first or newest first.
GdpInput(grid, growths, descending) ==
    \E D \in {S \in SUBSET grid : Cardinality(S) <= MaxRows} :
      \E f \in [D -> growths] :
        LET asc == SortByDate({GdpRow(d, NominalLevel(d), f[d]) : d \in D})
        IN  input = GdpFrame(IF descending THEN Reverse(asc) ELSE asc)

Init ==
    /\ pc = "start"
    /\ \/ GdpInput(AnnualGrid, Growths, FALSE)
       \/ GdpInput(QuarterGrid, {FromInt(4), FromInt(5)}, FALSE)
       \/ GdpInput(QuarterGrid, {FromInt(5)}, TRUE)
    /\ df = input
    /\ annual_df = <<>>
    /\ base_year = BASE_YEAR
    /\ base_idx = 0
    /\ annual_real_gdp = <<>>
    /\ log = <<>>
    /\ filename = NoFile
    /\ disk = [n \in {} |-> Unreadable]
    /\ date_diff = NaN
    /\ method = ""
    /\ result_df = EmptyFrame
    /\ ret = FALSE
    /\ df_indexed = EmptyFrame
    /\ IdleMerge
    /\ IdleDate

Next ==
    \/ Prepare
    \/ Anchor
    \/ Forward
    \/ Backward
    \/ NonYearEnd
    \/ Interpolate
    \/ Finalize

Spec == Init /\ [][Next]_vars

\* Inputs with December records that are not dated on the year's last day
\* (a file already in standard form is passed through as it is).
DecemberGrid ==
    {<<y, md[1], md[2]>> : y \in {BASE_YEAR, BASE_YEAR + 1},
                           md \in {<<6, 30>>, <<12, 15>>, <<12, 31>>}}

InitDecember ==
    /\ pc = "start"
    /\ GdpInput(DecemberGrid, {FromInt(5)}, FALSE)
    /\ df = input
    /\ annual_df = <<>>
    /\ base_year = BASE_YEAR
    /\ base_idx = 0
    /\ annual_real_gdp = <<>>
    /\ log = <<>>
    /\ filename = NoFile
    /\ disk = [n \in {} |-> Unreadable]
    /\ date_diff = NaN
    /\ method = ""
    /\ result_df = EmptyFrame
    /\ ret = FALSE
    /\ df_indexed = EmptyFrame
    /\ IdleMerge
    /\ IdleDate

SpecDecember == InitDecember /\ [][Next]_vars

-----------------------------------------------------------------------------
(* Inputs of process_file: a data directory holding, under the name asked  *)
(* for, nothing, an unreadable file, a file without a date column, a       *)
(* one-column series or a GDP file.                                        *)

MaxDates == 3

\* Dates whose distances from 2020-01-01 are 9, 10, 50, 51, 119, 120, 300
\* and 301 days.
SpreadDates ==
    {<<2020, 1, 1>>, <<2020, 1, 10>>, <<2020, 1, 11>>, <<2020, 2, 20>>,
     <<2020, 2, 21>>, <<2020, 4, 29>>, <<2020, 4, 30>>, <<2020, 10, 27>>,
     <<2020, 10, 28>>}

SpreadValues == {FromInt(1), FromInt(2)}

SpreadRow(date, v) == [c \in {"date", "spread"} |-> IF c = "date" THEN date ELSE v]

NoDateFrame == [cols |-> {"spread"}, rows |-> <<[c \in {"spread"} |-> FromInt(1)]>>]

IdleGdp ==
    /\ annual_df = <<>>
    /\ base_year = BASE_YEAR
    /\ base_idx = 0
    /\ annual_real_gdp = <<>>

OnDisk(content) == disk = [n \in {filename} |-> content]

SpreadOnDisk ==
    \E D \in {S \in SUBSET SpreadDates : Cardinality(S) <= MaxDates} :
      \E f \in [D -> SpreadValues] :
        \E descending \in BOOLEAN :
          LET asc == SortByDate({SpreadRow(d, f[d]) : d \in D})
          IN  OnDisk(Csv([cols |-> {"date", "spread"},
                          rows |-> IF descending THEN Reverse(asc) ELSE asc]))

GdpOnDisk ==
    \E D \in {S \in SUBSET QuarterGrid : Cardinality(S) <= MaxDates} :
      OnDisk(Csv(GdpFrame(SortByDate({GdpRow(d, NominalLevel(d), FromInt(5)) : d \in D}))))

InitFile ==
    /\ pc = "process_file"
    /\ filename \in {GDP_FILE, SPREAD_FILE}
    /\ \/ disk = [n \in {} |-> Unreadable]
       \/ OnDisk(Unreadable)
       \/ OnDisk(Csv(NoDateFrame))
       \/ SpreadOnDisk
       \/ GdpOnDisk
    /\ input = EmptyFrame
    /\ df = EmptyFrame
    /\ IdleGdp
    /\ log = <<>>
    /\ date_diff = NaN
    /\ method = ""
    /\ result_df = EmptyFrame
    /\ ret = FALSE
    /\ df_indexed = EmptyFrame
    /\ IdleMerge
    /\ IdleDate

NextFile ==
    \/ ProcessFileExists
    \/ ProcessFileRead
    \/ ProcessFileDetect
    \/ Prepare
    \/ Anchor
    \/ Forward
    \/ Backward
    \/ NonYearEnd
    \/ Interpolate
    \/ Finalize
    \/ ProcessFileGdpReturn
    \/ ProcessFileGdpRaised
    \/ ProcessFileDispatch
    \/ ProcessFileSave

SpecFile == InitFile /\ [][NextFile]_vars

-----------------------------------------------------------------------------
(* Inputs of _aggregate_daily_to_monthly: observations on a few days of    *)
(* three consecutive months across a year end, two numeric columns and a   *)
(* text column, in either order.                                           *)

MaxObs == 3

DailyDates ==
    {<<2020, 12, 1>>, <<2020, 12, 15>>, <<2020, 12, 31>>,
     <<2021, 1, 1>>, <<2021, 1, 15>>, <<2021, 1, 31>>,
     <<2021, 2, 1>>, <<2021, 2, 15>>, <<2021, 2, 28>>}

\* The cells of one observation: price, volume.
DailyCells ==
    {<<FromInt(1), FromInt(3)>>, <<FromInt(2), FromInt(6)>>, <<NaN, FromInt(3)>>}

DailyCols == {"date", "price", "volume", "note"}

DailyRow(date, cells) ==
    [c \in DailyCols |->
        IF c = "date" THEN date
        ELSE IF c = "price" THEN cells[1]
        ELSE IF c = "volume" THEN cells[2]
        ELSE Text(1)]

InitDaily ==
    /\ pc = "aggregate_daily"
    /\ \E D \in {S \in SUBSET DailyDates : Cardinality(S) <= MaxObs} :
         \E f \in [D -> DailyCells] :
           \E descending \in BOOLEAN :
             LET asc == SortByDate({DailyRow(d, f[d]) : d \in D})
             IN  input = [cols |-> DailyCols,
                          rows |-> IF descending THEN Reverse(asc) ELSE asc]
    /\ df = input
    /\ IdleGdp
    /\ log = <<>>
    /\ filename = NoFile
    /\ disk = [n \in {} |-> Unreadable]
    /\ date_diff = NaN
    /\ method = ""
    /\ result_df = EmptyFrame
    /\ ret = FALSE
    /\ df_indexed = EmptyFrame
    /\ IdleMerge
    /\ IdleDate

NextDaily ==
    \/ AggregateIndex
    \/ AggregateResample

SpecDaily == InitDaily /\ [][NextDaily]_vars

-----------------------------------------------------------------------------
(* Inputs of the quarterly and the annual strategy called on their own:    *)
(* one numeric column and one text column, records in either order.        *)

\* Quarter-end dates, as the date normaliser writes them for quarter text.
QuarterlyDates ==
    {<<2019, 12, 31>>, <<2020, 3, 31>>, <<2020, 6, 30>>, <<2020, 9, 30>>,
     <<2020, 12, 31>>, <<2021, 3, 31>>}

QuarterlyValues == {FromInt(100), FromInt(110), NaN}

\* Year-end dates, and a second record within one of the years.
AnnualDates == {<<2020, 12, 31>>, <<2021, 6, 30>>, <<2021, 12, 31>>, <<2022, 12, 31>>}

AnnualValues == {FromInt(500), FromInt(7)}

ObsCols == {"date", "value", "note"}

ObsRow(date, v) ==
    [c \in ObsCols |-> IF c = "date" THEN date ELSE IF c = "value" THEN v ELSE Text(1)]

ObsInput(dates, values) ==
    \E D \in {S \in SUBSET dates : Cardinality(S) <= MaxObs} :
      \E f \in [D -> values] :
        \E descending \in BOOLEAN :
          LET asc == SortByDate({ObsRow(d, f[d]) : d \in D})
          IN  input = [cols |-> ObsCols,
                       rows |-> IF descending THEN Reverse(asc) ELSE asc]

IdleFile ==
    /\ filename = NoFile
    /\ disk = [n \in {} |-> Unreadable]
    /\ date_diff = NaN
    /\ method = ""
    /\ result_df = EmptyFrame
    /\ ret = FALSE
    /\ df_indexed = EmptyFrame

InitQuarterly ==
    /\ pc = "interpolate_quarterly"
    /\ ObsInput(QuarterlyDates, QuarterlyValues)
    /\ df = input
    /\ IdleGdp
    /\ log = <<>>
    /\ IdleFile
    /\ IdleMerge
    /\ IdleDate

InitAnnual ==
    /\ pc = "repeat_annual"
    /\ ObsInput(AnnualDates, AnnualValues)
    /\ df = input
    /\ IdleGdp
    /\ log = <<>>
    /\ IdleFile
    /\ IdleMerge
    /\ IdleDate

InitResample == InitDaily \/ InitQuarterly \/ InitAnnual

NextResample ==
    \/ AggregateIndex
    \/ AggregateResample
    \/ QuarterlyIndex
    \/ QuarterlyResample
    \/ QuarterlyInterpolate
    \/ AnnualYearColumn
    \/ AnnualRepeat

SpecResample == InitResample /\ [][NextResample]_vars

-----------------------------------------------------------------------------
(* Inputs of create_unified_dataset called on its own: a data directory    *)
(* in which each of the six files is absent or holds one of a few          *)
(* contents, the monthly series covering any subset of the first months    *)
(* of 2020.                                                                *)

PanelMonths == 2

MonthDates == {<<2020, m, 1>> : m \in 1..PanelMonths}

Absent == [kind |-> "absent", frame |-> EmptyFrame]

\* The value of a series in a month: code tells the series and the column.
SeriesCell(code, date) == FromInt(100 * code + Month(date))

\* A series over the dates D with the columns columns[1], columns[2], ...
\* numbered from code.
SeriesFrame(columns, code, D, descending) ==
    LET cols == {"date"} \cup {columns[i] : i \in 1..Len(columns)}
        Row(d) == [c \in cols |->
                     IF c = "date" THEN d
                     ELSE SeriesCell(code + (CHOOSE i \in 1..Len(columns) : columns[i] = c), d)]
        asc == SortByDate({Row(d) : d \in D})
    IN  [cols |-> cols, rows |-> IF descending THEN Reverse(asc) ELSE asc]

\* A series holding the last month twice.
DuplicateFrame(columns, code) ==
    LET frame == SeriesFrame(columns, code, MonthDates, FALSE)
    IN  [frame EXCEPT !.rows = frame.rows \o <<frame.rows[Len(frame.rows)]>>]

CpiContents ==
    {Absent, Unreadable, Csv(NoDateFrame)}
      \cup {Csv(SeriesFrame(<<"national_month", "national_yoy">>, 10, D, o)) :
              D \in SUBSET MonthDates, o \in BOOLEAN}

PpiContents ==
    {Absent, Csv(SeriesFrame(<<"month_yoy">>, 21, MonthDates, FALSE)),
     Csv(SeriesFrame(<<"other">>, 29, MonthDates, FALSE))}
      \cup {Csv(SeriesFrame(<<"month", "month_yoy">>, 20, D, FALSE)) : D \in SUBSET MonthDates}

PmiContents == {Absent, Csv(SeriesFrame(<<"manufacturing_index">>, 30, MonthDates, FALSE))}

LoansContents ==
    {Absent, Unreadable,
     Csv(SeriesFrame(<<"month", "month_yoy_growth">>, 40, MonthDates, FALSE))}

GdpMonthlyContents ==
    {Absent, Csv(DuplicateFrame(<<value_col, growth_col>>, 50))}
      \cup {Csv(SeriesFrame(<<value_col, growth_col>>, 50, D, FALSE)) : D \in SUBSET MonthDates}

SpreadMonthlyContents ==
    {Absent, Csv(NoDateFrame), Csv(SeriesFrame(<<"spread">>, 60, MonthDates, FALSE))}

\* The directory holding the given content under each name, absent files
\* left out.
DiskOf(contents) ==
    [n \in {m \in DOMAIN contents : contents[m] # Absent} |-> contents[n]]

InitMerge ==
    /\ pc = "create_unified_dataset"
    /\ \E cpi \in CpiContents, ppi \in PpiContents, pmi \in PmiContents,
          loans \in LoansContents, gdp \in GdpMonthlyContents,
          spread \in SpreadMonthlyContents :
         disk = DiskOf([n \in {CPI_FILE, PPI_FILE, PMI_FILE, LOANS_FILE,
                               GDP_MONTHLY_FILE, SPREAD_MONTHLY_FILE} |->
                          IF n = CPI_FILE THEN cpi
                          ELSE IF n = PPI_FILE THEN ppi
                          ELSE IF n = PMI_FILE THEN pmi
                          ELSE IF n = LOANS_FILE THEN loans
                          ELSE IF n = GDP_MONTHLY_FILE THEN gdp
                          ELSE spread])
    /\ input = EmptyFrame
    /\ df = EmptyFrame
    /\ IdleGdp
    /\ log = <<>>
    /\ filename = NoFile
    /\ date_diff = NaN
    /\ method = ""
    /\ result_df = EmptyFrame
    /\ ret = FALSE
    /\ df_indexed = EmptyFrame
    /\ IdleMerge
    /\ IdleDate

NextMerge ==
    \/ UnifiedBase
    \/ UnifiedMerge
    \/ UnifiedSort
    \/ UnifiedSave

SpecMerge == InitMerge /\ [][NextMerge]_vars

-----------------------------------------------------------------------------
(* Inputs of convert_all_to_monthly: the two files to convert absent,      *)
(* unreadable, undated or holding a short series, the monthly sources      *)
(* present or absent, and monthly files of an earlier run present or not.  *)

\* A quarterly GDP file the conversion succeeds on, and one holding the
\* header only.
GdpStandardContents ==
    {Absent, Unreadable,
     Csv(GdpFrame(SortByDate({GdpRow(d, NominalLevel(d), FromInt(5)) :
                                d \in {<<BASE_YEAR, 12, 31>>, <<BASE_YEAR + 1, 3, 31>>}}))),
     Csv(GdpFrame(<<>>))}

\* A daily spread file, and one without a date column.
SpreadStandardContents ==
    {Absent, Csv(NoDateFrame),
     Csv([cols |-> {"date", "spread"},
          rows |-> <<SpreadRow(<<2020, 1, 1>>, FromInt(1)),
                     SpreadRow(<<2020, 1, 10>>, FromInt(2))>>])}

CpiMonthly == Csv(SeriesFrame(<<"national_month", "national_yoy">>, 10, MonthDates, FALSE))

PpiMonthly == Csv(SeriesFrame(<<"month", "month_yoy">>, 20, MonthDates, FALSE))

\* Monthly files an earlier run wrote.
StaleGdpMonthly == Csv(SeriesFrame(<<value_col, growth_col>>, 50, MonthDates, FALSE))

StaleSpreadMonthly == Csv(SeriesFrame(<<"spread">>, 60, MonthDates, FALSE))

InitAll ==
    /\ pc = "convert_all"
    /\ files \in {DefaultFiles, <<SPREAD_FILE>>}
    /\ \E gdp \in GdpStandardContents, spread \in SpreadStandardContents,
          cpi \in {Absent, Unreadable, Csv(NoDateFrame), CpiMonthly},
          ppi \in {Absent, PpiMonthly},
          gdp_monthly \in {Absent, StaleGdpMonthly},
          spread_monthly \in {Absent, StaleSpreadMonthly} :
         disk = DiskOf([n \in {GDP_FILE, SPREAD_FILE, CPI_FILE, PPI_FILE,
                               GDP_MONTHLY_FILE, SPREAD_MONTHLY_FILE} |->
                          IF n = GDP_FILE THEN gdp
                          ELSE IF n = SPREAD_FILE THEN spread
                          ELSE IF n = CPI_FILE THEN cpi
                          ELSE IF n = PPI_FILE THEN ppi
                          ELSE IF n = GDP_MONTHLY_FILE THEN gdp_monthly
                          ELSE spread_monthly])
    /\ input = EmptyFrame
    /\ df = EmptyFrame
    /\ IdleGdp
    /\ log = <<>>
    /\ filename = NoFile
    /\ date_diff = NaN
    /\ method = ""
    /\ result_df = EmptyFrame
    /\ ret = FALSE
    /\ df_indexed = EmptyFrame
    /\ file_idx = 0
    /\ success_count = 0
    /\ tally = <<>>
    /\ merged_df = EmptyFrame
    /\ merge_idx = 0
    /\ IdleDate

NextAll ==
    \/ ConvertAllStart
    \/ ConvertAllCall
    \/ ConvertAllCount
    \/ ConvertAllSummary
    \/ ConvertAllReturn
    \/ ProcessFileExists
    \/ ProcessFileRead
    \/ ProcessFileDetect
    \/ Prepare
    \/ Anchor
    \/ Forward
    \/ Backward
    \/ NonYearEnd
    \/ Interpolate
    \/ Finalize
    \/ ProcessFileGdpReturn
    \/ ProcessFileGdpRaised
    \/ ProcessFileDispatch
    \/ ProcessFileSave
    \/ UnifiedBase
    \/ UnifiedMerge
    \/ UnifiedSort
    \/ UnifiedSave

SpecAll == InitAll /\ [][NextAll]_vars

-----------------------------------------------------------------------------
(* Inputs of the date normaliser: texts of every recognised form, with     *)
(* months, quarters and days in and out of range, and texts of no form.    *)

TextYears == 2

TextYearSet == BASE_YEAR..(BASE_YEAR + TextYears - 1)

\* The decimal digits of n, at least width of them.
RECURSIVE Decimal(_, _)
Decimal(n, width) ==
    IF n < 10 /\ width <= 1 THEN <<DigitChar(n)>>
    ELSE Decimal(n \div 10, width - 1) \o <<DigitChar(n % 10)>>

\* Year, year sign, month, month sign, and the suffix or not.
MonthText(y, m, suffix) ==
    Decimal(y, 4) \o <<"Y">> \o Decimal(m, 1) \o <<"M">> \o (IF suffix THEN <<"F">> ELSE <<>>)

\* Year, year sign, ordinal sign, quarter, quarter sign.
QuarterText(y, q) == Decimal(y, 4) \o <<"Y", "O">> \o Decimal(q, 1) \o <<"J", "D">>

\* The same with a range of quarters a-b.
RangeText(y, a, b) ==
    Decimal(y, 4) \o <<"Y", "O">> \o Decimal(a, 1) \o <<"-">> \o Decimal(b, 1) \o <<"J", "D">>

\* An indicator code with the year embedded.
CodeText(y) == <<"z", "b", ".", "A", "0", "1", "_", "s", "j", ".">> \o Decimal(y, 4)

StandardText(y, m, d) == Decimal(y, 4) \o <<"-">> \o Decimal(m, 2) \o <<"-">> \o Decimal(d, 2)

MonthTexts == {MonthText(y, m, f) : y \in TextYearSet, m \in {0, 1, 3, 12, 13}, f \in BOOLEAN}

QuarterTexts ==
    {QuarterText(y, q) : y \in TextYearSet, q \in 0..5}
      \cup {RangeText(y, a, b) : y \in TextYearSet, a \in 1..4, b \in 1..4}

CodeTexts == {CodeText(y) : y \in TextYearSet}

StandardTexts == {StandardText(y, m, d) : y \in TextYearSet, m \in {2, 12, 13}, d \in {1, 30, 31}}

OtherTexts == {<<"x">>, <<"N", "o", "n", "e">>} \cup {Decimal(y, 4) : y \in TextYearSet}

RawTexts == MonthTexts \cup QuarterTexts \cup CodeTexts \cup StandardTexts \cup OtherTexts

InitNormalize ==
    /\ pc = "normalize"
    /\ sample \in RawTexts
    /\ conversion_type = ""
    /\ normalized = <<>>
    /\ fail_count = 0
    /\ date_column = ""
    /\ input = EmptyFrame
    /\ df = EmptyFrame
    /\ IdleGdp
    /\ log = <<>>
    /\ filename = NoFile
    /\ disk = [n \in {} |-> Unreadable]
    /\ date_diff = NaN
    /\ method = ""
    /\ result_df = EmptyFrame
    /\ ret = FALSE
    /\ df_indexed = EmptyFrame
    /\ files = <<>>
    /\ file_idx = 0
    /\ success_count = 0
    /\ tally = <<>>
    /\ merged_df = EmptyFrame
    /\ merge_idx = 0

NextNormalize ==
    \/ NormalizeDetect
    \/ NormalizeConvert
    \/ NormalizeAgain

SpecNormalize == InitNormalize /\ [][NextNormalize]_vars

-----------------------------------------------------------------------------
(* Inputs of process_all_files: a list of files, each absent, unreadable,  *)
(* without its date column, empty, or holding a few dated records; the     *)
(* standard-date file of an earlier run present or not.                    *)

MaxTextRows == 2

\* Date texts of a quarterly file: well-formed ones, a quarter out of
\* range, a month text, a month text without the suffix and a text of no
\* form.
GdpRawTexts ==
    {QuarterText(BASE_YEAR, 1), RangeText(BASE_YEAR, 1, 2), QuarterText(BASE_YEAR, 5),
     MonthText(BASE_YEAR, 3, TRUE), MonthText(BASE_YEAR, 3, FALSE), <<"x">>}

\* Date texts of a file in standard form: a date, two texts of the same
\* shape that are no dates, a month text with month 13 and a text of no form.
SpreadRawTexts ==
    {StandardText(BASE_YEAR, 2, 1), StandardText(BASE_YEAR, 2, 30),
     StandardText(BASE_YEAR, 13, 1), MonthText(BASE_YEAR, 13, TRUE), <<"x">>}

\* The frames of at most MaxTextRows records with the date texts in col.
TextFrames(col, texts) ==
    {[cols |-> {col, "value"},
      rows |-> [i \in 1..Len(t) |->
                  [c \in {col, "value"} |-> IF c = col THEN t[i] ELSE FromInt(i)]]] :
       t \in UNION {[1..n -> texts] : n \in 0..MaxTextRows}}

RawContents(col, texts) ==
    {Absent, Unreadable, Csv(NoDateFrame)} \cup {Csv(f) : f \in TextFrames(col, texts)}

\* A well-formed file of one record.
PlainContents(col, text) ==
    {Absent, Csv([cols |-> {col, "value"},
                  rows |-> <<[c \in {col, "value"} |-> IF c = col THEN text ELSE FromInt(1)]>>])}

\* A standard-date file an earlier run wrote.
StaleStandard ==
    Csv([cols |-> {"date", "value"},
         rows |-> <<[c \in {"date", "value"} |->
                       IF c = "date" THEN StandardText(BASE_YEAR - 1, 12, 31) ELSE FromInt(9)]>>])

InitDates ==
    /\ pc = "process_all_files"
    /\ files \in {<<GDP_RAW, SPREAD_RAW>>, <<SPREAD_RAW, NOTES_FILE, GDP_RAW>>, <<GDP_RAW>>}
    /\ \/ \E gdp \in RawContents("quarter", GdpRawTexts)
                        \cup RawContents("month", {MonthText(BASE_YEAR, 13, TRUE)}),
             spread \in PlainContents("date", StandardText(BASE_YEAR, 2, 1)),
             stale \in {Absent, StaleStandard} :
            disk = DiskOf([n \in {GDP_RAW, SPREAD_RAW, GDP_FILE} |->
                             IF n = GDP_RAW THEN gdp ELSE IF n = SPREAD_RAW THEN spread ELSE stale])
       \/ \E gdp \in PlainContents("quarter", QuarterText(BASE_YEAR, 1)),
             spread \in RawContents("date", SpreadRawTexts),
             stale \in {Absent, StaleStandard} :
            disk = DiskOf([n \in {GDP_RAW, SPREAD_RAW, SPREAD_FILE} |->
                             IF n = GDP_RAW THEN gdp ELSE IF n = SPREAD_RAW THEN spread ELSE stale])
    /\ input = EmptyFrame
    /\ df = EmptyFrame
    /\ IdleGdp
    /\ log = <<>>
    /\ filename = NoFile
    /\ date_diff = NaN
    /\ method = ""
    /\ result_df = EmptyFrame
    /\ ret = FALSE
    /\ df_indexed = EmptyFrame
    /\ file_idx = 0
    /\ success_count = 0
    /\ tally = <<>>
    /\ merged_df = EmptyFrame
    /\ merge_idx = 0
    /\ IdleDate

NextDates ==
    \/ ProcessAllStart
    \/ ProcessAllNext
    \/ ConvertFileExists
    \/ ConvertFileDetect
    \/ ConvertFileConvert
    \/ ConvertFileSave
    \/ ProcessAllCount
    \/ ProcessAllReturn

SpecDates == InitDates /\ [][NextDates]_vars

-----------------------------------------------------------------------------
(* Properties of _convert_gdp_to_real.                                     *)

Anchored == pc \in {"forward", "backward", "non_year_end", "interpolate",
                    "finalize", "done"}

AfterChain == pc \in {"non_year_end", "interpolate", "finalize", "done"}

\* The column that holds the real values: the temporary column until the
\* last step, the value column in the result.
RealCol == IF pc = "done" THEN value_col ELSE real_gdp_col

\* Real value and growth rate of year y, read at the year's annual row.
R(y) == df.rows[FirstAnnualOfYear(y)][RealCol]

G(y) == df.rows[FirstAnnualOfYear(y)][growth_col]

\* Year y was given a finite value by the anchor or by a chain step.
ChainResolved(y) == y \in DOMAIN annual_real_gdp /\ IsFinite(annual_real_gdp[y])

InputDates == {input.rows[i]["date"] : i \in 1..Len(input.rows)}

InputAt(date) == CHOOSE r \in RowSet(input.rows) : r["date"] = date

RowAt(date) == CHOOSE r \in RowSet(df.rows) : r["date"] = date

ScenarioC ==
    /\ base_year = BASE_YEAR
    /\ InputDates = {<<2014, 12, 31>>, <<2015, 12, 31>>, <<2016, 12, 31>>}
    /\ InputAt(<<2015, 12, 31>>)[value_col] = FromInt(1000)
    /\ InputAt(<<2015, 12, 31>>)[growth_col] = FromInt(4)
    /\ InputAt(<<2016, 12, 31>>)[growth_col] = FromInt(5)

\* C1: once the chain steps have run, for every year y whose previous
\* calendar year y-1 was resolved by the chain (a finite value) and whose
\* growth rate G[y] is present, R[y] = R[y-1] * (1 + G[y]/100), forward of
\* the base year and backward of it alike; and for base 2015 nominal 1000,
\* G[2016] = 5, G[2015] = 4 the result is R[2016] = 1050, R[2014] = 1000/1.04.
C1_ChainLinkConsistency ==
    AfterChain =>
      /\ \A y \in DOMAIN annual_real_gdp :
           (ChainResolved(y - 1) /\ notna(G(y)))
             => R(y) = FMul(R(y - 1), GrowthFactor(G(y)))
      /\ ScenarioC => /\ R(2016) = FromInt(1050)
                      /\ R(2014) = Num(100000, 104)

C1_Witness ==
    /\ pc = "done"
    /\ ScenarioC
    /\ R(2016) = FromInt(1050)
    /\ R(2014) = Num(12500, 13)
    /\ R(2015) = FromInt(1000)

\* C2: when the input holds a year-end record of the base year, the real
\* value of that record equals the record's nominal value from the moment
\* the anchor is set, through every later step, and in the result.
C2_AnchorFixedPoint ==
    (Anchored /\ <<BASE_YEAR, 12, 31>> \in InputDates) =>
      /\ base_year = BASE_YEAR
      /\ RowAt(<<BASE_YEAR, 12, 31>>)[RealCol]
           = InputAt(<<BASE_YEAR, 12, 31>>)[value_col]

C2_Witness ==
    /\ pc = "done"
    /\ <<BASE_YEAR, 12, 31>> \in InputDates
    /\ RowAt(<<BASE_YEAR, 12, 31>>)[value_col] = FromInt(1000)
    /\ \E d \in InputDates : /\ DateLess(d, <<BASE_YEAR, 12, 31>>)
                             /\ RowAt(d)[value_col] # InputAt(d)[value_col]
    /\ \E d \in InputDates : /\ DateLess(<<BASE_YEAR, 12, 31>>, d)
                             /\ RowAt(d)[value_col] # InputAt(d)[value_col]

\* C3 (as claimed): a year whose backward step would divide by
\* 1 + G/100 = 0 (the next year's growth rate is -100) is left unresolved
\* by the chain step, and no infinite value is ever stored in the real
\* column.
C3_DegenerateLeftUnresolved ==
    /\ pc = "non_year_end" =>
         \A i \in 1..(base_year_idx - 1) :
           G(years[i + 1]) = FromInt(-100) => IsNaN(R(years[i]))
    /\ Anchored =>
         \A i \in 1..Len(df.rows) : df.rows[i][RealCol].k # "inf"

\* The years of the annual rows, one entry per row, in date order.
AnnualYears == [j \in 1..Len(annual_df) |-> AnnualYear(j)]

BaseYearSubstituted == Anchored /\ AnnualOfYear(BASE_YEAR) = {}

SubstitutionWarned ==
    \E i \in 1..Len(log) : log[i] = "warning: base year not found"

C5_OnlyAdjacentYears ==
    AfterChain =>
      \A y \in DOMAIN annual_real_gdp :
        notna(annual_real_gdp[y]) =>
          /\ y > base_year => AnnualOfYear(y - 1) # {}
          /\ y < base_year => AnnualOfYear(y + 1) # {}

\* C6 (as claimed): the result holds neither the growth-rate column nor a
\* helper column.
C6_GrowthAndHelpersDropped ==
    pc = "done" => df.cols \cap {growth_col, "year", real_gdp_col} = {}

\* C6 (amended): the last step puts the reconstructed real values in the
\* nominal level column and drops the helper columns (year, temporary real
\* column); the growth-rate column stays in the result, unchanged.
C6_Step ==
    pc' = "done" =>
      /\ df'.cols = {"date", value_col, growth_col}
      /\ Len(df'.rows) = Len(df.rows)
      /\ \A i \in 1..Len(df.rows) :
           /\ df'.rows[i][value_col] = df.rows[i][real_gdp_col]
           /\ df'.rows[i][growth_col] = df.rows[i][growth_col]
           /\ df'.rows[i]["date"] = df.rows[i]["date"]

C6_RealReplacesNominal == [][C6_Step]_vars

C6_Witness ==
    /\ pc = "done"
    /\ growth_col \in df.cols
    /\ "year" \notin df.cols
    /\ real_gdp_col \notin df.cols
    /\ \E d \in InputDates : RowAt(d)[value_col] # InputAt(d)[value_col]

-----------------------------------------------------------------------------
(* Properties of process_file.                                             *)

Logged(msg) == \E i \in 1..Len(log) : log[i] = msg

\* The frequency class process_file has announced for the file.
ChosenClass ==
    IF Logged("daily data detected") THEN "Daily"
    ELSE IF Logged("quarterly data detected") THEN "Quarterly"
    ELSE IF Logged("annual data detected") THEN "Annual"
    ELSE IF Logged("already monthly, no conversion") THEN "Monthly"
    ELSE "None"

\* The file was read and holds at least two dated rows.
TwoDatesRead == "date" \in df.cols /\ Len(df.rows) >= 2

\* The file was read and holds fewer than two dated rows.
FewDatesRead == "date" \in df.cols /\ Len(df.rows) < 2

\* The median gap compared with a whole number of days.
GapBelow(days) == date_diff.k = "num" /\ date_diff.n < days * date_diff.d

GapAbove(days) == date_diff.k = "num" /\ date_diff.n > days * date_diff.d

OutputWritten == OutputFilename(filename) \in DOMAIN disk

\* C7 as stated: if a file with at least 2 dates has been classified, the
\* class is Daily when the median gap g < 10, Quarterly when
\* 50 <= g <= 120, Annual when g > 300 and Monthly otherwise.
C7_QuarterlyInclusive ==
    (TwoDatesRead /\ ChosenClass # "None") =>
        ChosenClass = IF GapBelow(10) THEN "Daily"
                      ELSE IF ~GapBelow(50) /\ ~GapAbove(120) THEN "Quarterly"
                      ELSE IF GapAbove(300) THEN "Annual"
                      ELSE "Monthly"

\* C7 amended: if a file with at least 2 dates has been classified, the
\* class is Daily when g < 10, Quarterly when 50 < g < 120, Annual when
\* g > 300 and Monthly otherwise, so g = 10, 50, 120 and 300 are Monthly.
C7_QuarterlyExclusive ==
    (TwoDatesRead /\ ChosenClass # "None") =>
        /\ date_diff.k = "num"
        /\ ChosenClass = IF GapBelow(10) THEN "Daily"
                         ELSE IF GapAbove(50) /\ GapBelow(120) THEN "Quarterly"
                         ELSE IF GapAbove(300) THEN "Annual"
                         ELSE "Monthly"

\* A file whose median gap is exactly 120 days has been classified Monthly.
C7_Witness ==
    /\ TwoDatesRead
    /\ date_diff = FromInt(120)
    /\ ChosenClass = "Monthly"
    /\ pc = "returned"

\* C8 as stated: when process_file has returned for a file with fewer
\* than 2 dates, the file was given none of the classes Daily, Monthly,
\* Quarterly, Annual, it was reported as unclassifiable, it was not
\* converted and no monthly output was written.
C8_FewDatesUnknown ==
    (pc = "returned" /\ FewDatesRead) =>
        /\ ChosenClass \notin {"Daily", "Monthly", "Quarterly", "Annual"}
        /\ Logged("unclassifiable frequency")
        /\ ret = FALSE
        /\ method = ""
        /\ ~OutputWritten

-----------------------------------------------------------------------------
(* Properties of _aggregate_daily_to_monthly.                              *)

AggregateReturned == pc = "aggregate_returned"

\* The calendar months in which an input observation falls.
InputMonths == {MonthIndex(input.rows[i]["date"]) : i \in 1..Len(input.rows)}

OutputMonths == {MonthIndex(result_df.rows[j]["date"]) : j \in 1..Len(result_df.rows)}

\* C9 as stated: the months of the output rows are exactly the months in
\* which at least one input observation falls.
C9_NoRowForEmptyMonth == AggregateReturned => OutputMonths = InputMonths

\* C9 amended: the output has one row for every calendar month from the
\* month of the first observation to the month of the last, in ascending
\* order, and in the row of a month without observations every value is
\* missing.
C9_RowForEveryMonthInRange ==
    AggregateReturned =>
        /\ InputMonths = {} => result_df.rows = <<>>
        /\ InputMonths # {} =>
             LET first == CHOOSE m \in InputMonths : \A q \in InputMonths : m <= q
                 last  == CHOOSE m \in InputMonths : \A q \in InputMonths : q <= m
             IN  /\ Len(result_df.rows) = last - first + 1
                 /\ \A j \in 1..Len(result_df.rows) :
                      /\ MonthIndex(result_df.rows[j]["date"]) = first + j - 1
                      /\ (first + j - 1) \notin InputMonths =>
                           \A c \in result_df.cols \ {"date"} :
                             result_df.rows[j][c] = NaN

\* The input skips a whole month and the output holds that month's row.
C9_Witness ==
    /\ AggregateReturned
    /\ \E m \in OutputMonths :
         /\ m \notin InputMonths
         /\ (m - 1) \in InputMonths
         /\ (m + 1) \in InputMonths

\* The input rows of the calendar month of date with a value in col.
ObservedIn(date, col) ==
    {i \in 1..Len(input.rows) :
        /\ Year(input.rows[i]["date"]) = Year(date)
        /\ Month(input.rows[i]["date"]) = Month(date)
        /\ input.rows[i][col].k = "num"}

\* The sum of the (whole-number) input values of col over the rows in S.
RECURSIVE InputSum(_, _)
InputSum(S, col) ==
    IF S = {} THEN 0
    ELSE LET i == CHOOSE x \in S : TRUE
         IN  input.rows[i][col].n + InputSum(S \ {i}, col)

\* C10: every output row is dated on the first day of a month, and its
\* value in each numeric column is the sum of the input values of that
\* column observed in that month divided by their number (missing when
\* there is none).
C10_MonthlyMean ==
    AggregateReturned =>
        \A j \in 1..Len(result_df.rows) :
          LET row == result_df.rows[j]
          IN  /\ Day(row["date"]) = 1
              /\ \A c \in {"price", "volume"} :
                   LET obs == ObservedIn(row["date"], c)
                   IN  IF obs = {} THEN row[c] = NaN
                       ELSE /\ row[c].k = "num"
                            /\ row[c].n * Cardinality(obs) = row[c].d * InputSum(obs, c)

\* A month with the prices 1 and 2 observed after its first day has the
\* mean 3/2 in its row.
C10_Witness ==
    /\ AggregateReturned
    /\ \E j \in 1..Len(result_df.rows) :
         /\ result_df.rows[j]["price"] = Num(3, 2)
         /\ \A i \in ObservedIn(result_df.rows[j]["date"], "price") :
              Day(input.rows[i]["date"]) > 1

-----------------------------------------------------------------------------
(* Properties of the quarterly and the annual strategy, and of the three   *)
(* strategies together.                                                    *)

QuarterlyReturned == pc = "quarterly_returned"

AnnualReturned == pc = "annual_returned"

\* The value of the output row of the calendar month mi.
ResultAt(mi) ==
    result_df.rows[CHOOSE j \in 1..Len(result_df.rows) :
                     MonthIndex(result_df.rows[j]["date"]) = mi]["value"]

\* The input rows that hold a value.
Observed == {i \in 1..Len(input.rows) : input.rows[i]["value"].k = "num"}

ScenarioA ==
    /\ Len(input.rows) = 2
    /\ \E i \in 1..2 : /\ input.rows[i]["date"] = <<2020, 3, 31>>
                       /\ input.rows[i]["value"] = FromInt(100)
    /\ \E i \in 1..2 : /\ input.rows[i]["date"] = <<2020, 6, 30>>
                       /\ input.rows[i]["value"] = FromInt(110)

\* C11: in the output of the quarterly strategy the month of every
\* observation holds the observation's value, and between two observations
\* v1 and v2 three months apart the two months hold v1 + (v2 - v1)/3 and
\* v1 + 2(v2 - v1)/3; for 100 at 2020-03-31 and 110 at 2020-06-30 the rows
\* 2020-04-01 and 2020-05-01 hold 310/3 and 320/3.
C11_QuarterlyLinear ==
    QuarterlyReturned =>
      /\ \A i \in Observed :
           ResultAt(MonthIndex(input.rows[i]["date"])) = input.rows[i]["value"]
      /\ \A a, b \in Observed :
           LET m  == MonthIndex(input.rows[a]["date"])
               v1 == input.rows[a]["value"].n
               v2 == input.rows[b]["value"].n
           IN  MonthIndex(input.rows[b]["date"]) = m + 3 =>
                 /\ ResultAt(m + 1).k = "num"
                 /\ 3 * ResultAt(m + 1).n = ResultAt(m + 1).d * (2 * v1 + v2)
                 /\ ResultAt(m + 2).k = "num"
                 /\ 3 * ResultAt(m + 2).n = ResultAt(m + 2).d * (v1 + 2 * v2)
      /\ ScenarioA =>
           /\ Len(result_df.rows) = 4
           /\ result_df.rows[2] = [date |-> <<2020, 4, 1>>, value |-> Num(310, 3)]
           /\ result_df.rows[3] = [date |-> <<2020, 5, 1>>, value |-> Num(320, 3)]

C11_Witness ==
    /\ QuarterlyReturned
    /\ ScenarioA
    /\ ResultAt(MonthIndex(<<2020, 3, 1>>)) = FromInt(100)
    /\ ResultAt(MonthIndex(<<2020, 4, 1>>)) = Num(310, 3)
    /\ ResultAt(MonthIndex(<<2020, 5, 1>>)) = Num(320, 3)
    /\ ResultAt(MonthIndex(<<2020, 6, 1>>)) = FromInt(110)

ScenarioB ==
    /\ Len(input.rows) = 1
    /\ input.rows[1]["date"] = <<2021, 12, 31>>
    /\ input.rows[1]["value"] = FromInt(500)

\* C12: the output of the annual strategy holds, for each input record,
\* exactly 12 rows dated on the first day of January to December of the
\* record's year, each with the record's value; for 500 at 2021-12-31 it
\* is the 12 rows 2021-01-01 to 2021-12-01 with the value 500.
C12_TwelveCopies ==
    AnnualReturned =>
      /\ Len(result_df.rows) = 12 * Len(input.rows)
      /\ \A i \in 1..Len(input.rows) : \A m \in 1..12 :
           LET row == result_df.rows[12 * (i - 1) + m]
           IN  /\ row["date"] = <<Year(input.rows[i]["date"]), m, 1>>
               /\ row["value"] = input.rows[i]["value"]
      /\ ScenarioB =>
           \A j \in 1..12 : /\ result_df.rows[j]["date"] = <<2021, j, 1>>
                            /\ result_df.rows[j]["value"] = FromInt(500)

C12_Witness ==
    /\ AnnualReturned
    /\ ScenarioB
    /\ Len(result_df.rows) = 12
    /\ result_df.rows[1]["date"] = <<2021, 1, 1>>
    /\ result_df.rows[12]["date"] = <<2021, 12, 1>>
    /\ \A j \in 1..12 : result_df.rows[j]["value"] = FromInt(500)

ResamplerReturned ==
    pc \in {"aggregate_returned", "quarterly_returned", "annual_returned"}

\* C13 as stated: the output of each of the three strategies has strictly
\* increasing dates, no month twice.
C13_StrictlyIncreasingMonths ==
    ResamplerReturned =>
      \A j \in 1..(Len(result_df.rows) - 1) :
        DateLess(result_df.rows[j]["date"], result_df.rows[j + 1]["date"])

\* C14 as stated: the output of each of the three strategies holds no text
\* column of the input.
C14_NoTextColumn ==
    ResamplerReturned => "note" \notin result_df.cols

-----------------------------------------------------------------------------
(* Properties of create_unified_dataset.                                   *)

\* The loop over the files has ended and the panel is complete.
MergeDone == pc \in {"unified_save", "unified_returned"}

FileDates(name) ==
    {disk[name].frame.rows[i]["date"] : i \in 1..Len(disk[name].frame.rows)}

\* The entries of files_to_merge whose file is merged into the panel: the
\* base, and every file that is readable, dated and holds a wanted column.
Contributing ==
    {k \in 1..Len(files_to_merge) :
        LET name == files_to_merge[k][1]
        IN  /\ name \in DOMAIN disk
            /\ disk[name].kind = "csv"
            /\ "date" \in disk[name].frame.cols
            /\ (k = 1 \/ AvailableCols(files_to_merge[k][2], disk[name].frame) # <<>>)}

\* The wanted columns entry k finds in its file.
Found(k) == AvailableCols(files_to_merge[k][2], disk[files_to_merge[k][1]].frame)

\* The panel columns that come from entry k of files_to_merge.
PanelColsOf(k) ==
    IF k = 1 THEN {"CPI", "CPI_yoy"}
    ELSE {Numbered(Prefix(files_to_merge[k][1]), i - 1) : i \in 1..Len(Found(k))}

PanelDates == {merged_df.rows[j]["date"] : j \in 1..Len(merged_df.rows)}

\* C15: once the loop has ended, the dates of the panel are exactly the
\* dates of the base series and of every merged series, and a panel row
\* whose date a series lacks holds missing values in that series' columns.
C15_OuterJoinDates ==
    MergeDone =>
      /\ PanelDates = UNION {FileDates(files_to_merge[k][1]) : k \in Contributing}
      /\ \A j \in 1..Len(merged_df.rows) : \A k \in Contributing :
           merged_df.rows[j]["date"] \notin FileDates(files_to_merge[k][1]) =>
             \A c \in PanelColsOf(k) : merged_df.rows[j][c] = NaN

\* The panel holds a month only the base series has and a month only the
\* second series has.
C15_Witness ==
    /\ pc = "unified_returned"
    /\ "PPI_0" \in merged_df.cols
    /\ \E j \in 1..Len(merged_df.rows) :
         /\ merged_df.rows[j]["CPI"] = NaN
         /\ merged_df.rows[j]["PPI_0"] # NaN
    /\ \E j \in 1..Len(merged_df.rows) :
         /\ merged_df.rows[j]["CPI"] # NaN
         /\ merged_df.rows[j]["PPI_0"] = NaN

\* No contributing series holds a date twice.
UniqueInputDates ==
    \A k \in Contributing :
      LET rows == disk[files_to_merge[k][1]].frame.rows
      IN  \A a, b \in 1..Len(rows) : rows[a]["date"] = rows[b]["date"] => a = b

\* The panel as written to the data directory.
Written == disk[UNIFIED_FILE].frame

\* C16: the panel written is in ascending date order, and when no
\* contributing series holds a date twice it holds every date once.
C16_SortedUniqueDates ==
    pc = "unified_returned" =>
      /\ \A j \in 1..(Len(Written.rows) - 1) :
           ~DateLess(Written.rows[j + 1]["date"], Written.rows[j]["date"])
      /\ UniqueInputDates =>
           \A j \in 1..(Len(Written.rows) - 1) :
             DateLess(Written.rows[j]["date"], Written.rows[j + 1]["date"])

\* A base series stored newest first was the only series merged, and a
\* panel of two months was written.
C16_Witness ==
    /\ pc = "unified_returned"
    /\ UniqueInputDates
    /\ Contributing = {1}
    /\ Len(disk[CPI_FILE].frame.rows) = 2
    /\ DateLess(disk[CPI_FILE].frame.rows[2]["date"], disk[CPI_FILE].frame.rows[1]["date"])
    /\ Len(Written.rows) = 2

\* The file names the program reads.
SourceNames ==
    {GDP_FILE, SPREAD_FILE} \cup {files_to_merge[k][1] : k \in 1..Len(files_to_merge)}

\* The names the renaming gives the listed columns of a source.
RenamedNames(name, columns) ==
    {RenameDict(name, columns)[columns[i]] : i \in 1..Len(columns)}

\* The number of value columns the contributing entries from k on bring.
RECURSIVE ColumnCount(_)
ColumnCount(k) ==
    IF k > Len(files_to_merge) THEN 0
    ELSE (IF k \in Contributing THEN Cardinality(PanelColsOf(k)) ELSE 0) + ColumnCount(k + 1)

\* C17 as stated: the value columns of the panel are pairwise distinct,
\* each is named by the prefix of its source and the position of the
\* column in the list of columns selected for the source, and any two
\* sources, also two sharing the part before the first underscore, are
\* given distinct names.
C17_DistinctForAnySources ==
    /\ MergeDone =>
         /\ Cardinality(merged_df.cols \ {"date"}) = ColumnCount(1)
         /\ \A c \in merged_df.cols \ {"date"} :
              \E k \in Contributing : \E i \in 1..Len(files_to_merge[k][2]) :
                /\ c = Numbered(Prefix(files_to_merge[k][1]), i - 1)
                /\ files_to_merge[k][2][i] \in disk[files_to_merge[k][1]].frame.cols
    /\ \A n1, n2 \in SourceNames :
         n1 # n2 => RenamedNames(n1, <<value_col>>) \cap RenamedNames(n2, <<value_col>>) = {}

\* C17 amended: the value columns of the panel are pairwise distinct; the
\* base columns are named CPI and CPI_yoy and every other column is named
\* by the part of its file's name before the first underscore and its
\* position among the wanted columns found in the file, and holds that
\* column's values; the files of the fixed list have distinct leading parts.
C17_DistinctForListedSources ==
    /\ MergeDone =>
         /\ Cardinality(merged_df.cols \ {"date"}) = ColumnCount(1)
         /\ merged_df.cols \ {"date"} = UNION {PanelColsOf(k) : k \in Contributing}
         /\ \A k \in Contributing \ {1} : \A i \in 1..Len(Found(k)) :
              \A r \in RowSet(disk[files_to_merge[k][1]].frame.rows) :
                \E j \in 1..Len(merged_df.rows) :
                  /\ merged_df.rows[j]["date"] = r["date"]
                  /\ merged_df.rows[j][Numbered(Prefix(files_to_merge[k][1]), i - 1)]
                       = r[Found(k)[i]]
    /\ \A a, b \in 1..Len(files_to_merge) :
         a # b => Prefix(files_to_merge[a][1]) # Prefix(files_to_merge[b][1])

\* A file holding only the second wanted column was merged: its column is
\* numbered 0.
C17_Witness ==
    /\ MergeDone
    /\ 2 \in Contributing
    /\ Found(2) = <<"month_yoy">>
    /\ "PPI_0" \in merged_df.cols
    /\ "PPI_1" \notin merged_df.cols
    /\ "GDP_1" \in merged_df.cols

-----------------------------------------------------------------------------
(* Properties of convert_all_to_monthly.                                   *)

\* create_unified_dataset has been called.
MergeBegun == pc \in {"create_unified_dataset", "unified_merge", "unified_save",
                      "unified_returned", "unified_none", "crashed"}

\* C18: whenever create_unified_dataset has been called, process_file has
\* returned for every file of the list.
C18_MergeAfterEveryFile ==
    MergeBegun =>
      /\ Len(tally) = Len(files)
      /\ file_idx = Len(files) + 1

\* The merge reads its series after one file of two failed and one
\* converted.
C18_Witness ==
    /\ pc = "unified_merge"
    /\ files = DefaultFiles
    /\ tally = <<FALSE, TRUE>>

\* C19: the panel holds no column of a series whose conversion failed in
\* this run.
C19_FailedSeriesExcluded ==
    MergeDone =>
      \A i \in 1..Len(tally) :
        ~tally[i] =>
          merged_df.cols \cap {Numbered(Prefix(OutputFilename(files[i])), n) : n \in 0..1} = {}

\* Entry k of files_to_merge is a readable dated file holding a wanted
\* column.
Usable(k) ==
    LET name == files_to_merge[k][1]
    IN  /\ name \in DOMAIN disk
        /\ disk[name].kind = "csv"
        /\ "date" \in disk[name].frame.cols
        /\ AvailableCols(files_to_merge[k][2], disk[name].frame) # <<>>

\* C20: when convert_all_to_monthly returns and some monthly series is
\* usable, a panel has been built.
C20_PanelFromAvailableSeries ==
    (pc = "convert_all_returned" /\ \E k \in 1..Len(files_to_merge) : Usable(k))
      => merged_df.cols # {}

-----------------------------------------------------------------------------
(* Properties of the last steps of _convert_gdp_to_real.                   *)

RealBefore(i) == df.rows[i][real_gdp_col]

RealAfter(i) == df'.rows[i][real_gdp_col]

\* The step fills record i, unresolved before it.
Fills(i) == IsNaN(RealBefore(i)) /\ notna(RealAfter(i))

\* C26 (as claimed): the step that substitutes the base year and the
\* interpolation step that fills an unresolved real value each emit a
\* warning.
C26_Step ==
    /\ (pc = "anchor" /\ pc' = "forward" /\ base_year' # base_year)
         => Len(log') > Len(log)
    /\ (pc = "interpolate" /\ \E i \in 1..Len(df.rows) : Fills(i))
         => Len(log') > Len(log)

C26_SubstitutionsWarned == [][C26_Step]_vars

\* The year-end record of year y, 0 when the input has none.
YearEndRow(y) == PrevRow(df, <<y, 12, 31>>)

\* C27 (as claimed): the non-year-end step gives a record unresolved
\* before it the real value of the same date one year earlier times
\* 1 + G/100 when that value is available, and otherwise, when the
\* record's year has a year-end record and a resolved annual real value,
\* that annual value times the ratio of the record's nominal value to the
\* year-end nominal value.
C27_Step ==
    pc = "non_year_end" =>
      \A i \in 1..Len(df.rows) :
        (IsNaN(RealBefore(i)) /\ Month(df.rows[i]["date"]) # 12) =>
          LET row  == df.rows[i]
              y    == Year(row["date"])
              prev == PrevRow(df, PrevYearDate(row["date"]))
          IN  IF prev # 0 /\ notna(RealAfter(prev))
              THEN RealAfter(i) = FMul(RealAfter(prev), GrowthFactor(row[growth_col]))
              ELSE (YearEndRow(y) # 0 /\ ChainResolved(y)) =>
                     RealAfter(i) = FMul(FDiv(row[value_col],
                                              df.rows[YearEndRow(y)][value_col]),
                                         annual_real_gdp[y])

C27_PriorYearElseRatio == [][C27_Step]_vars

\* C29: the interpolation step leaves every real value resolved before it
\* as it was, and changes no other column and no record's place.
C29_Step ==
    pc = "interpolate" =>
      /\ Len(df'.rows) = Len(df.rows)
      /\ \A i \in 1..Len(df.rows) :
           /\ notna(RealBefore(i)) => RealAfter(i) = RealBefore(i)
           /\ \A c \in df.cols \ {real_gdp_col} : df'.rows[i][c] = df.rows[i][c]

C29_ResolvedKept == [][C29_Step]_vars

\* Record i holds a value although no earlier step could give it one: it
\* is no year-end record, its year has no annual real value and the input
\* has no record one year before it.  The interpolation filled it.
FilledRecord(i) ==
    /\ Month(df.rows[i]["date"]) # 12
    /\ Year(df.rows[i]["date"]) \notin DOMAIN annual_real_gdp
    /\ PrevRow(df, PrevYearDate(df.rows[i]["date"])) = 0
    /\ notna(df.rows[i][real_gdp_col])

\* The interpolation has filled a record lying between the anchor and a
\* chain-linked value, and both are what they were.
C29_Witness ==
    /\ pc = "finalize"
    /\ Len(df.rows) = 3
    /\ FilledRecord(2)
    /\ base_idx = 1
    /\ df.rows[1][real_gdp_col] = df.rows[1][value_col]
    /\ Year(df.rows[3]["date"]) \in DOMAIN annual_real_gdp
    /\ df.rows[3][real_gdp_col] = annual_real_gdp[Year(df.rows[3]["date"])]
    /\ IsFinite(df.rows[3][real_gdp_col])
    /\ df.rows[2][real_gdp_col]
         = FDiv(FAdd(df.rows[1][real_gdp_col], df.rows[3][real_gdp_col]), FromInt(2))

\* C30 (as claimed): the interpolation step fills only a record lying
\* between two records resolved before it.
C30_Step ==
    pc = "interpolate" =>
      \A i \in 1..Len(df.rows) :
        Fills(i) =>
          /\ \E lo \in 1..(i - 1) : notna(RealBefore(lo))
          /\ \E hi \in (i + 1)..Len(df.rows) : notna(RealBefore(hi))

C30_OnlyBetweenResolved == [][C30_Step]_vars

\* The annual rows have been picked.
Prepared == pc \in {"anchor", "raised"} \/ Anchored

\* The records dated on the last day of a year.
YearEndRows ==
    {i \in 1..Len(df.rows) :
        Month(df.rows[i]["date"]) = 12 /\ Day(df.rows[i]["date"]) = 31}

\* C28 (as claimed): the records treated as full-year observations are
\* the records dated December 31, and every record when there is none.
C28_YearEndOnly ==
    Prepared =>
      {annual_df[j] : j \in 1..Len(annual_df)}
        = IF YearEndRows # {} THEN YearEndRows ELSE 1..Len(df.rows)

-----------------------------------------------------------------------------
(* Properties of the date normaliser.                                      *)

\* s is a calendar date written YYYY-MM-DD.
IsCanonicalDate(s) ==
    /\ Len(s) = 10
    /\ StandardPrefix(s)
    /\ IntOf(Slice(s, 6, 2)) \in 1..12
    /\ IntOf(Slice(s, 9, 2)) \in 1..DaysInMonth(IntOf(Slice(s, 1, 4)), IntOf(Slice(s, 6, 2)))

\* The last day of quarter q of year y.
QuarterEnd(y, q) == StandardText(y, 3 * q, IF q \in {1, 4} THEN 31 ELSE 30)

Greater(a, b) == IF a >= b THEN a ELSE b

FirstResult == pc = "normalized" /\ Len(normalized) = 1

\* C24 (as claimed): the text of quarter q of year y is normalised to the
\* last day of that quarter, and the text of the quarters a-b of year y to
\* the last day of the greater of a and b.
C24_GreaterQuarterEnd ==
    FirstResult =>
      \A y \in TextYearSet : \A a \in 1..4 :
        /\ sample = QuarterText(y, a) => normalized[1] = QuarterEnd(y, a)
        /\ \A b \in 1..4 :
             sample = RangeText(y, a, b) => normalized[1] = QuarterEnd(y, Greater(a, b))

\* C25: a canonical date is normalised to itself; normalising the result
\* of a normalisation again gives the same value; and every text a
\* normalisation returns is recognised when normalised again.
C25_Idempotent ==
    /\ (FirstResult /\ IsCanonicalDate(sample)) => normalized[1] = sample
    /\ (pc = "normalized" /\ Len(normalized) = 2) => normalized[2] = normalized[1]
    /\ (pc = "unrecognized" /\ Len(normalized) = 1) => normalized[1] = None

\* The date a quarter text was normalised to has been normalised again.
C25_Witness ==
    /\ pc = "normalized"
    /\ normalized = <<StandardText(BASE_YEAR, 6, 30), StandardText(BASE_YEAR, 6, 30)>>
    /\ conversion_type = "standard"

-----------------------------------------------------------------------------
(* Properties of process_all_files and convert_file_dates.                 *)

\* C21 (as claimed, for process_all_files): when process_all_files
\* returns, every file of the list has been counted once, as a success or
\* as a failure.
C21_EveryFileCounted ==
    pc = "dates_returned" =>
      /\ success_count + fail_count = Len(files)
      /\ Len(tally) = Len(files)

\* The text matches none of the recognised patterns.
Unrecognized(s) ==
    /\ ~(Contains(s, <<"Y">>) /\ Contains(s, <<"M", "F">>))
    /\ ~(Contains(s, <<"Y">>) /\ Contains(s, <<"J", "D">>))
    /\ ~(Contains(s, <<"z", "b", ".", "A">>) /\ Contains(s, <<"_", "s", "j", ".">>))
    /\ ~StandardPrefix(s)

\* The file being converted is readable and its date column starts with a
\* text of no recognised pattern.
UnrecognizedSample ==
    /\ pc = "dates_read"
    /\ disk[filename].kind = "csv"
    /\ date_column \in disk[filename].frame.cols
    /\ Len(disk[filename].frame.rows) > 0
    /\ Unrecognized(disk[filename].frame.rows[1][date_column])

\* C22: a file whose sample date text matches no recognised pattern fails
\* with a warning and leaves the data directory as it was, through the
\* return of convert_file_dates.
C22_Step ==
    /\ UnrecognizedSample =>
         /\ pc' = "dates_file_returned"
         /\ ret' = FALSE
         /\ log' = Append(log, "warning: unrecognized date format")
         /\ disk' = disk
    /\ pc = "dates_file_returned" => (disk' = disk /\ (~ret => fail_count' = fail_count + 1))

C22_UnrecognizedSkipped == [][C22_Step]_vars

\* A file with an unrecognised sample has failed, and the standard-date
\* file of an earlier run is as it was.
C22_Witness ==
    /\ pc = "dates_file_returned"
    /\ filename = GDP_RAW
    /\ sample # <<>>
    /\ Unrecognized(sample)
    /\ ~ret
    /\ log[Len(log)] = "warning: unrecognized date format"
    /\ GDP_FILE \in DOMAIN disk
    /\ disk[GDP_FILE] = StaleStandard

\* C23 (as claimed): every record of every standard-date file written by
\* convert_file_dates holds a calendar date in the form YYYY-MM-DD.
C23_WrittenDatesCanonical ==
    \A name \in {GDP_FILE, SPREAD_FILE} \cap DOMAIN disk :
      disk[name] # StaleStandard =>
        \A i \in 1..Len(disk[name].frame.rows) :
          IsCanonicalDate(disk[name].frame.rows[i]["date"])

=============================================================================
